---- MODULE Spec2Model ----
(***************************************************************************)
(* Repository layer of the content-management backend: PostRepository and  *)
(* TagRepository over the SQLite store (tables posts, tags, post_tags).    *)
(*                                                                         *)
(* Strings are sequences of one-character strings, Option<T> is a sequence *)
(* of length 0 (None) or 1 (Some).  Every repository call is one action,   *)
(* except PostRepository::patch, whose read of the current row goes        *)
(* through the pool (not the transaction) and is therefore a step of its   *)
(* own: PatchRead, then PatchWrite.                                        *)
(***************************************************************************)
EXTENDS Integers, Sequences, FiniteSets, TLC

\* ------------------------------------------------------------------ bounds
MaxPostId == 2
MaxTagId == 2
MaxClock == 1
MaxCalls == 4

PostIds == 1..MaxPostId
TagIds == 1..MaxTagId
Callers == {"c1", "c2"}

\* ----------------------------------------------------------------- strings
None == <<>>
Some(x) == <<x>>

AsciiAlnum == {"a", "b", "x", "y", "T", "X", "C", "D", "i", "e", "Z", "0", "9"}
Whitespace == {" "}

\* str::trim: drop leading and trailing whitespace
RECURSIVE TrimStart(_)
TrimStart(s) ==
    IF s = <<>> THEN s
    ELSE IF Head(s) \in Whitespace THEN TrimStart(Tail(s)) ELSE s

RECURSIVE TrimEnd(_)
TrimEnd(s) ==
    IF s = <<>> THEN s
    ELSE IF s[Len(s)] \in Whitespace THEN TrimEnd(SubSeq(s, 1, Len(s) - 1)) ELSE s

Trim(s) == TrimEnd(TrimStart(s))

\* ------------------------------------------------------------- models/post
CategoryToString(c) ==
    CASE c = "Blog" -> <<"b", "l", "o", "g">>
      [] c = "Art" -> <<"a", "r", "t">>
      [] c = "Reading" -> <<"r", "e", "a", "d", "i", "n", "g">>

\* the sqlx::Type decoding of the TEXT column (rename_all = "lowercase")
DecodeCategory(s) ==
    CASE s = <<"b", "l", "o", "g">> -> "Blog"
      [] s = <<"a", "r", "t">> -> "Art"
      [] s = <<"r", "e", "a", "d", "i", "n", "g">> -> "Reading"

\* str::to_lowercase on the letters the inputs use
to_lowercase(s) ==
    [i \in DOMAIN s |->
        CASE s[i] = "B" -> "b"
          [] s[i] = "L" -> "l"
          [] s[i] = "O" -> "o"
          [] s[i] = "G" -> "g"
          [] s[i] = "A" -> "a"
          [] s[i] = "R" -> "r"
          [] s[i] = "T" -> "t"
          [] s[i] = "E" -> "e"
          [] s[i] = "D" -> "d"
          [] s[i] = "I" -> "i"
          [] s[i] = "N" -> "n"
          [] OTHER -> s[i]]

\* mutant: the category string is matched as given
from_str_CaseSensitive(s) ==
    CASE s = <<"b", "l", "o", "g">> -> [ok |-> TRUE, value |-> "Blog"]
      [] s = <<"a", "r", "t">> -> [ok |-> TRUE, value |-> "Art"]
      [] s = <<"r", "e", "a", "d", "i", "n", "g">> -> [ok |-> TRUE, value |-> "Reading"]
      [] OTHER -> [ok |-> FALSE, value |-> s]

\* impl FromStr for PostCategory
from_str(s) ==
    LET l == to_lowercase(s) IN
    CASE l = <<"b", "l", "o", "g">> -> [ok |-> TRUE, value |-> "Blog"]
      [] l = <<"a", "r", "t">> -> [ok |-> TRUE, value |-> "Art"]
      [] l = <<"r", "e", "a", "d", "i", "n", "g">> -> [ok |-> TRUE, value |-> "Reading"]
      [] OTHER -> [ok |-> FALSE, value |-> s]

\* mutant: consecutive hyphens are rejected
is_valid_slug_NoDoubleHyphen(slug) ==
    /\ slug # <<>>
    /\ \A i \in 1..Len(slug) : slug[i] \in AsciiAlnum \cup {"-"}
    /\ slug[1] # "-"
    /\ slug[Len(slug)] # "-"
    /\ \A i \in 1..(Len(slug) - 1) : ~(slug[i] = "-" /\ slug[i + 1] = "-")

is_valid_slug(slug) ==
    /\ slug # <<>>
    /\ \A i \in 1..Len(slug) : slug[i] \in AsciiAlnum \cup {"-"}
    /\ slug[1] # "-"
    /\ slug[Len(slug)] # "-"

CreatePost_validate(post) ==
    IF Trim(post.title) = <<>> THEN "EmptyTitle"
    ELSE IF Trim(post.content) = <<>> THEN "EmptyContent"
    ELSE IF ~is_valid_slug(post.slug) THEN "InvalidSlug"
    ELSE "Ok"

\* mutant: the id is checked after the other fields
UpdatePost_validate_IdLast(post) ==
    IF Trim(post.title) = <<>> THEN "EmptyTitle"
    ELSE IF Trim(post.content) = <<>> THEN "EmptyContent"
    ELSE IF ~is_valid_slug(post.slug) THEN "InvalidSlug"
    ELSE IF post.id <= 0 THEN "InvalidId"
    ELSE "Ok"

UpdatePost_validate(post) ==
    IF post.id <= 0 THEN "InvalidId"
    ELSE IF Trim(post.title) = <<>> THEN "EmptyTitle"
    ELSE IF Trim(post.content) = <<>> THEN "EmptyContent"
    ELSE IF ~is_valid_slug(post.slug) THEN "InvalidSlug"
    ELSE "Ok"

\* -------------------------------------------------------------- models/tag
\* char::is_ascii_alphanumeric || char::is_whitespace || '-' || '_' || '+'
TagNameChars == AsciiAlnum \cup Whitespace \cup {"-", "_", "+"}

\* Tag::is_valid_name
is_valid_name(name) ==
    LET trimmed == Trim(name) IN
    /\ trimmed # <<>>
    /\ Len(trimmed) <= 50
    /\ \A i \in 1..Len(trimmed) : trimmed[i] \in TagNameChars

\* ------------------------------------------------------------------- state
VARIABLES
    posts,      \* table posts: id -> row
    tags,       \* table tags: id -> row
    post_tags,  \* table post_tags: <<post_id, tag_id>> -> number of rows
    now,        \* the store clock read by CURRENT_TIMESTAMP
    sqlite_sequence, \* table name -> the largest id the store has generated for it
    inflight,   \* caller -> None, or Some(patch call between its read and its write)
    last,       \* the step taken last: the call, its result, and the store before it
    calls,      \* number of calls started so far
    pool        \* caller -> where its call stands with the pool, connections it holds

\* a caller with no call in progress
Idle == [at |-> "idle", held |-> 0]

vars == <<posts, tags, post_tags, sqlite_sequence, now, inflight, last, calls, pool>>

DB == [posts |-> posts, tags |-> tags, post_tags |-> post_tags]

NoRet == <<>>

\* ---------------------------------------------------------- store (schema)
\* mutant: the slug column without its uniqueness constraint
SlugUniqueOk_Off(ps, slug, self) == TRUE

\* posts.slug UNIQUE
SlugUniqueOk(ps, slug, self) ==
    \A i \in DOMAIN ps : i # self => ps[i].slug # slug

\* tags.name UNIQUE
NameUniqueOk(ts, name, self) ==
    \A i \in DOMAIN ts : i # self => ts[i].name # name

\* post_tags: FOREIGN KEY (post_id) REFERENCES posts, FOREIGN KEY (tag_id) REFERENCES tags
ForeignKeysOk(db, post_id, tag_id) ==
    post_id \in DOMAIN db.posts /\ tag_id \in DOMAIN db.tags

\* post_tags: PRIMARY KEY (post_id, tag_id)
PairUniqueOk(pt, post_id, tag_id) ==
    pt[<<post_id, tag_id>>] = 0

\* mutant: the post_id foreign key without ON DELETE CASCADE
CascadePost_Off(pt, id) == pt

\* ON DELETE CASCADE of post_tags.post_id
CascadePost(pt, id) ==
    [k \in DOMAIN pt |-> IF k[1] = id THEN 0 ELSE pt[k]]

\* ON DELETE CASCADE of post_tags.tag_id
CascadeTag(pt, id) ==
    [k \in DOMAIN pt |-> IF k[2] = id THEN 0 ELSE pt[k]]

\* the id the store generates for the next row of a table: ids are never reused
GeneratedId(seq, table) == seq[table] + 1

Restrict(f, S) == [k \in S |-> f[k]]

\* ------------------------------------------------------ db/post_repository
\* the Post a query_as!(Post, ...) row decodes to
DecodePost(row) == [row EXCEPT !.category = DecodeCategory(row.category)]

\* what a call returns (res: "Ok" or the DatabaseError kind; ret: the value) and the
\* store it leaves; fault: the store failure that ended it, if any
Outcome(res, ret, db) == [res |-> res, ret |-> ret, db |-> db, fault |-> "none"]

\* pool.begin() or tx.commit() failed: map_err(DatabaseError::Sqlx), the
\* transaction is dropped and rolls back
Failed(fault, db) == [res |-> "Sqlx", ret |-> NoRet, db |-> db, fault |-> fault]

\* INSERT INTO posts (...) VALUES (...) RETURNING ...; id, created_at and
\* updated_at are generated by the store
\* mutant: INSERT INTO posts with no UNIQUE constraint on slug to stop it
ExecInsertPost_NoUnique(db, post, id, t) ==
    LET row == [id |-> id,
                category |-> CategoryToString(post.category),
                title |-> post.title,
                slug |-> post.slug,
                content |-> post.content,
                description |-> post.description,
                image_url |-> post.image_url,
                external_url |-> post.external_url,
                published |-> post.published,
                created_at |-> t,
                updated_at |-> t]
    IN [err |-> "none",
        db |-> [db EXCEPT !.posts = [k \in DOMAIN db.posts \cup {id} |->
                                        IF k = id THEN row ELSE db.posts[k]]],
        row |-> row]

ExecInsertPost(db, post, id, t) ==
    IF ~SlugUniqueOk(db.posts, post.slug, 0) THEN [err |-> "UNIQUE", db |-> db, row |-> NoRet]
    ELSE LET row == [id |-> id,
                     category |-> CategoryToString(post.category),
                     title |-> post.title,
                     slug |-> post.slug,
                     content |-> post.content,
                     description |-> post.description,
                     image_url |-> post.image_url,
                     external_url |-> post.external_url,
                     published |-> post.published,
                     created_at |-> t,
                     updated_at |-> t]
         IN [err |-> "none",
             db |-> [db EXCEPT !.posts = [k \in DOMAIN db.posts \cup {id} |->
                                             IF k = id THEN row ELSE db.posts[k]]],
             row |-> row]

\* mutant: the input is validated after the insert was committed
PostCreateOutcome_ValidatesLate(db, post, id, t, fault) ==
    IF fault = "begin" THEN Failed("begin", db)
    ELSE LET r == ExecInsertPost(db, post, id, t) IN
         IF r.err = "UNIQUE" THEN Outcome("DuplicateEntry", NoRet, db)
         ELSE IF fault = "commit" THEN Failed("commit", db)
         ELSE IF CreatePost_validate(post) # "Ok" THEN Outcome("Validation", NoRet, r.db)
         ELSE Outcome("Ok", DecodePost(r.row), r.db)

\* mutant: the transaction is never committed
PostCreateOutcome_NoCommit(db, post, id, t, fault) ==
    IF CreatePost_validate(post) # "Ok" THEN Outcome("Validation", NoRet, db)
    ELSE IF fault = "begin" THEN Failed("begin", db)
    ELSE LET r == ExecInsertPost(db, post, id, t) IN
         IF r.err = "UNIQUE" THEN Outcome("DuplicateEntry", NoRet, db)
         ELSE IF fault = "commit" THEN Failed("commit", db)
         ELSE Outcome("Ok", DecodePost(r.row), db)

\* mutant: the UNIQUE constraint error is not mapped to DuplicateEntry
PostCreateOutcome_UniqueUnmapped(db, post, id, t, fault) ==
    IF CreatePost_validate(post) # "Ok" THEN Outcome("Validation", NoRet, db)
    ELSE IF fault = "begin" THEN Failed("begin", db)
    ELSE LET r == ExecInsertPost(db, post, id, t) IN
         IF r.err = "UNIQUE" THEN Outcome("Sqlx", NoRet, db)
         ELSE IF fault = "commit" THEN Failed("commit", db)
         ELSE Outcome("Ok", DecodePost(r.row), r.db)

\* PostRepository::create
PostCreateOutcome(db, post, id, t, fault) ==
    IF CreatePost_validate(post) # "Ok" THEN Outcome("Validation", NoRet, db)
    ELSE IF fault = "begin" THEN Failed("begin", db)
    ELSE LET r == ExecInsertPost(db, post, id, t) IN
         IF r.err = "UNIQUE" THEN Outcome("DuplicateEntry", NoRet, db)
         ELSE IF fault = "commit" THEN Failed("commit", db)
         ELSE Outcome("Ok", DecodePost(r.row), r.db)

\* PostRepository::find_by_id
FindById(db, id) ==
    IF id \in DOMAIN db.posts THEN Outcome("Ok", DecodePost(db.posts[id]), db)
    ELSE Outcome("NotFound", NoRet, db)

\* PostRepository::find_by_slug
FindBySlug(db, slug) ==
    IF \E i \in DOMAIN db.posts : db.posts[i].slug = slug
    THEN Outcome("Ok", DecodePost(db.posts[CHOOSE i \in DOMAIN db.posts : db.posts[i].slug = slug]), db)
    ELSE Outcome("NotFound", NoRet, db)

Min(a, b) == IF a < b THEN a ELSE b

\* WHERE (? IS NULL OR category = ?) AND (? = FALSE OR published = TRUE)
ListMatches(db, category, published_only) ==
    { db.posts[i] : i \in { i \in DOMAIN db.posts :
                               /\ category = None
                                  \/ db.posts[i].category = CategoryToString(category[1])
                               /\ ~published_only \/ db.posts[i].published } }

\* mutant: the result in ascending order of created_at
OrderByCreatedAtDesc_Asc(rows) ==
    { s \in [1..Cardinality(rows) -> rows] :
        /\ \A i, j \in DOMAIN s : i # j => s[i] # s[j]
        /\ \A i, j \in DOMAIN s : i < j => s[i].created_at <= s[j].created_at }

\* ORDER BY created_at DESC: every order of the rows the store may produce (rows
\* with equal created_at come in an order the query does not fix)
OrderByCreatedAtDesc(rows) ==
    { s \in [1..Cardinality(rows) -> rows] :
        /\ \A i, j \in DOMAIN s : i # j => s[i] # s[j]
        /\ \A i, j \in DOMAIN s : i < j => s[i].created_at >= s[j].created_at }

\* LIMIT ? OFFSET ?
LimitOffset(s, limit, offset) ==
    [i \in 1..Min(limit, IF Len(s) > offset THEN Len(s) - offset ELSE 0) |-> s[offset + i]]

\* mutant: the upper bound of limit is not checked
PostListOutcomes_NoUpperLimit(db, category, published_only, limit, offset, fault) ==
    IF limit <= 0 THEN { Outcome("Validation", NoRet, db) }
    ELSE IF offset < 0 THEN { Outcome("Validation", NoRet, db) }
    ELSE IF fault = "fetch" THEN { Failed("fetch", db) }
    ELSE { Outcome("Ok", [i \in DOMAIN page |-> DecodePost(page[i])], db) :
             page \in { LimitOffset(s, limit, offset) :
                          s \in OrderByCreatedAtDesc(ListMatches(db, category, published_only)) } }

\* PostRepository::list: the set of results the call may return
PostListOutcomes(db, category, published_only, limit, offset, fault) ==
    IF limit <= 0 \/ limit > 100 THEN { Outcome("Validation", NoRet, db) }
    ELSE IF offset < 0 THEN { Outcome("Validation", NoRet, db) }
    ELSE IF fault = "fetch" THEN { Failed("fetch", db) }
    ELSE { Outcome("Ok", [i \in DOMAIN page |-> DecodePost(page[i])], db) :
             page \in { LimitOffset(s, limit, offset) :
                          s \in OrderByCreatedAtDesc(ListMatches(db, category, published_only)) } }

\* mutant: the UPDATE without updated_at = CURRENT_TIMESTAMP
ExecUpdatePost_NoTimestamp(db, id, f, t) ==
    IF id \notin DOMAIN db.posts THEN [err |-> "none", db |-> db, row |-> None]
    ELSE IF ~SlugUniqueOk(db.posts, f.slug, id) THEN [err |-> "UNIQUE", db |-> db, row |-> None]
    ELSE LET row == [db.posts[id] EXCEPT !.category = f.category,
                                         !.title = f.title,
                                         !.slug = f.slug,
                                         !.content = f.content,
                                         !.description = f.description,
                                         !.image_url = f.image_url,
                                         !.external_url = f.external_url,
                                         !.published = f.published]
         IN [err |-> "none", db |-> [db EXCEPT !.posts[id] = row], row |-> Some(row)]

\* mutant: an absent image_url or external_url keeps the stored value
ExecUpdatePost_KeepsUrls(db, id, f, t) ==
    IF id \notin DOMAIN db.posts THEN [err |-> "none", db |-> db, row |-> None]
    ELSE IF ~SlugUniqueOk(db.posts, f.slug, id) THEN [err |-> "UNIQUE", db |-> db, row |-> None]
    ELSE LET row == [db.posts[id] EXCEPT !.category = f.category,
                                         !.title = f.title,
                                         !.slug = f.slug,
                                         !.content = f.content,
                                         !.description = f.description,
                                         !.image_url = IF f.image_url = None THEN @ ELSE f.image_url,
                                         !.external_url = IF f.external_url = None THEN @
                                                          ELSE f.external_url,
                                         !.published = f.published,
                                         !.updated_at = t]
         IN [err |-> "none", db |-> [db EXCEPT !.posts[id] = row], row |-> Some(row)]

\* UPDATE posts SET ..., updated_at = CURRENT_TIMESTAMP WHERE id = ? RETURNING ...
\* row: None when no row has that id, Some(row) after the update
\* mutant: UPDATE posts SET id = id + 1, ... WHERE id = ?
ExecUpdatePost_RewritesId(db, id, f, t) ==
    IF id \notin DOMAIN db.posts THEN [err |-> "none", db |-> db, row |-> None]
    ELSE IF ~SlugUniqueOk(db.posts, f.slug, id) THEN [err |-> "UNIQUE", db |-> db, row |-> None]
    ELSE LET row == [db.posts[id] EXCEPT !.id = id + 1,
                                         !.category = f.category,
                                         !.title = f.title,
                                         !.slug = f.slug,
                                         !.content = f.content,
                                         !.description = f.description,
                                         !.image_url = f.image_url,
                                         !.external_url = f.external_url,
                                         !.published = f.published,
                                         !.updated_at = t]
         IN [err |-> "none",
             db |-> [db EXCEPT !.posts = [k \in (DOMAIN db.posts \ {id}) \cup {id + 1} |->
                                             IF k = id + 1 THEN row ELSE db.posts[k]]],
             row |-> Some(row)]

ExecUpdatePost(db, id, f, t) ==
    IF id \notin DOMAIN db.posts THEN [err |-> "none", db |-> db, row |-> None]
    ELSE IF ~SlugUniqueOk(db.posts, f.slug, id) THEN [err |-> "UNIQUE", db |-> db, row |-> None]
    ELSE LET row == [db.posts[id] EXCEPT !.category = f.category,
                                         !.title = f.title,
                                         !.slug = f.slug,
                                         !.content = f.content,
                                         !.description = f.description,
                                         !.image_url = f.image_url,
                                         !.external_url = f.external_url,
                                         !.published = f.published,
                                         !.updated_at = t]
         IN [err |-> "none", db |-> [db EXCEPT !.posts[id] = row], row |-> Some(row)]

\* mutant: the UNIQUE constraint error of the UPDATE is not mapped to DuplicateEntry
PostUpdateOutcome_UniqueUnmapped(db, post, t, fault) ==
    IF UpdatePost_validate(post) # "Ok" THEN Outcome("Validation", NoRet, db)
    ELSE IF fault = "begin" THEN Failed("begin", db)
    ELSE LET r == ExecUpdatePost(db, post.id,
                                 [post EXCEPT !.category = CategoryToString(post.category)], t)
         IN IF r.err = "UNIQUE" THEN Outcome("Sqlx", NoRet, db)
            ELSE IF r.row = None THEN Outcome("NotFound", NoRet, db)
            ELSE IF fault = "commit" THEN Failed("commit", db)
            ELSE Outcome("Ok", DecodePost(r.row[1]), r.db)

\* PostRepository::update
PostUpdateOutcome(db, post, t, fault) ==
    IF UpdatePost_validate(post) # "Ok" THEN Outcome("Validation", NoRet, db)
    ELSE IF fault = "begin" THEN Failed("begin", db)
    ELSE LET r == ExecUpdatePost(db, post.id,
                                 [post EXCEPT !.category = CategoryToString(post.category)], t)
         IN IF r.err = "UNIQUE" THEN Outcome("DuplicateEntry", NoRet, db)
            ELSE IF r.row = None THEN Outcome("NotFound", NoRet, db)
            ELSE IF fault = "commit" THEN Failed("commit", db)
            ELSE Outcome("Ok", DecodePost(r.row[1]), r.db)

\* Option::unwrap_or
UnwrapOr(opt, default) == IF opt = None THEN default ELSE opt[1]

\* Option::or
OptionOr(opt, other) == IF opt = None THEN other ELSE opt

\* PostRepository::patch, first half: begin, then find_by_id through the pool
PatchReadOutcome(db, patch, fault) ==
    IF fault = "begin" THEN Failed("begin", db)
    ELSE FindById(db, patch.id)

\* the merge of the patch over the row that was read
PatchMerge(patch, current) ==
    [category |-> CategoryToString(UnwrapOr(patch.category, current.category)),
     title |-> UnwrapOr(patch.title, current.title),
     slug |-> UnwrapOr(patch.slug, current.slug),
     content |-> UnwrapOr(patch.content, current.content),
     description |-> UnwrapOr(patch.description, current.description),
     image_url |-> OptionOr(patch.image_url, current.image_url),
     external_url |-> OptionOr(patch.external_url, current.external_url),
     published |-> UnwrapOr(patch.published, current.published)]

\* PostRepository::patch, second half: the UPDATE of the merged row (fetch_one:
\* no row is sqlx::Error::RowNotFound) and the commit
PatchWriteOutcome(db, patch, current, t, fault) ==
    LET r == ExecUpdatePost(db, patch.id, PatchMerge(patch, current), t) IN
    IF r.err = "UNIQUE" THEN Outcome("DuplicateEntry", NoRet, db)
    ELSE IF r.row = None THEN Outcome("Sqlx", NoRet, db)
    ELSE IF fault = "commit" THEN Failed("commit", db)
    ELSE Outcome("Ok", DecodePost(r.row[1]), r.db)

\* DELETE FROM posts WHERE id = ?
ExecDeletePost(db, id) ==
    IF id \notin DOMAIN db.posts THEN [rows_affected |-> 0, db |-> db]
    ELSE [rows_affected |-> 1,
          db |-> [db EXCEPT !.posts = Restrict(db.posts, DOMAIN db.posts \ {id}),
                            !.post_tags = CascadePost(db.post_tags, id)]]

\* mutant: the delete returns Ok without committing
PostDeleteOutcome_NoCommit(db, id, fault) ==
    IF fault = "begin" THEN Failed("begin", db)
    ELSE LET r == ExecDeletePost(db, id) IN
         IF r.rows_affected = 0 THEN Outcome("NotFound", NoRet, db)
         ELSE IF fault = "commit" THEN Failed("commit", db)
         ELSE Outcome("Ok", NoRet, db)

\* mutant: rows_affected() of the DELETE is not looked at
PostDeleteOutcome_IgnoresRowsAffected(db, id, fault) ==
    IF fault = "begin" THEN Failed("begin", db)
    ELSE LET r == ExecDeletePost(db, id) IN
         IF fault = "commit" THEN Failed("commit", db)
         ELSE Outcome("Ok", NoRet, r.db)

\* PostRepository::delete
PostDeleteOutcome(db, id, fault) ==
    IF fault = "begin" THEN Failed("begin", db)
    ELSE LET r == ExecDeletePost(db, id) IN
         IF r.rows_affected = 0 THEN Outcome("NotFound", NoRet, db)
         ELSE IF fault = "commit" THEN Failed("commit", db)
         ELSE Outcome("Ok", NoRet, r.db)

\* ------------------------------------------------------- db/tag_repository
\* INSERT INTO tags (name) VALUES (?) RETURNING *
ExecInsertTag(db, name, id, t) ==
    IF ~NameUniqueOk(db.tags, name, 0) THEN [err |-> "UNIQUE", db |-> db, row |-> NoRet]
    ELSE LET row == [id |-> id, name |-> name, created_at |-> t]
         IN [err |-> "none",
             db |-> [db EXCEPT !.tags = [k \in DOMAIN db.tags \cup {id} |->
                                            IF k = id THEN row ELSE db.tags[k]]],
             row |-> row]

\* mutant: the name is inserted as given, without trim()
TagCreateOutcome_NoTrim(db, name, id, t, fault) ==
    IF Trim(name) = <<>> THEN Outcome("Validation", NoRet, db)
    ELSE IF fault = "begin" THEN Failed("begin", db)
    ELSE LET r == ExecInsertTag(db, name, id, t) IN
         IF r.err = "UNIQUE" THEN Outcome("DuplicateEntry", NoRet, db)
         ELSE IF fault = "commit" THEN Failed("commit", db)
         ELSE Outcome("Ok", r.row, r.db)

\* TagRepository::create
TagCreateOutcome(db, name, id, t, fault) ==
    IF Trim(name) = <<>> THEN Outcome("Validation", NoRet, db)
    ELSE IF fault = "begin" THEN Failed("begin", db)
    ELSE LET r == ExecInsertTag(db, Trim(name), id, t) IN
         IF r.err = "UNIQUE" THEN Outcome("DuplicateEntry", NoRet, db)
         ELSE IF fault = "commit" THEN Failed("commit", db)
         ELSE Outcome("Ok", r.row, r.db)

\* TagRepository::find_by_name
FindByName(db, name) ==
    IF \E i \in DOMAIN db.tags : db.tags[i].name = name
    THEN Outcome("Ok", db.tags[CHOOSE i \in DOMAIN db.tags : db.tags[i].name = name], db)
    ELSE Outcome("NotFound", NoRet, db)

\* UPDATE tags SET name = ? WHERE id = ? RETURNING *
\* mutant: the row is replaced (deleted and inserted), which cascades
ExecUpdateTag_Replace(db, id, name) ==
    IF id \notin DOMAIN db.tags THEN [err |-> "none", db |-> db, row |-> None]
    ELSE IF ~NameUniqueOk(db.tags, name, id) THEN [err |-> "UNIQUE", db |-> db, row |-> None]
    ELSE LET row == [db.tags[id] EXCEPT !.name = name]
         IN [err |-> "none",
             db |-> [db EXCEPT !.tags[id] = row, !.post_tags = CascadeTag(db.post_tags, id)],
             row |-> Some(row)]

ExecUpdateTag(db, id, name) ==
    IF id \notin DOMAIN db.tags THEN [err |-> "none", db |-> db, row |-> None]
    ELSE IF ~NameUniqueOk(db.tags, name, id) THEN [err |-> "UNIQUE", db |-> db, row |-> None]
    ELSE LET row == [db.tags[id] EXCEPT !.name = name]
         IN [err |-> "none", db |-> [db EXCEPT !.tags[id] = row], row |-> Some(row)]

\* mutant: the new name is written as given, without trim()
TagUpdateOutcome_NoTrim(db, id, new_name, fault) ==
    IF Trim(new_name) = <<>> THEN Outcome("Validation", NoRet, db)
    ELSE IF fault = "begin" THEN Failed("begin", db)
    ELSE LET r == ExecUpdateTag(db, id, new_name) IN
         IF r.err = "UNIQUE" THEN Outcome("DuplicateEntry", NoRet, db)
         ELSE IF r.row = None THEN Outcome("NotFound", NoRet, db)
         ELSE IF fault = "commit" THEN Failed("commit", db)
         ELSE Outcome("Ok", r.row[1], r.db)

\* mutant: a missing row is not turned into NotFound (ok_or_else dropped)
TagUpdateOutcome_MissingRowOk(db, id, new_name, fault) ==
    IF Trim(new_name) = <<>> THEN Outcome("Validation", NoRet, db)
    ELSE IF fault = "begin" THEN Failed("begin", db)
    ELSE LET r == ExecUpdateTag(db, id, Trim(new_name)) IN
         IF r.err = "UNIQUE" THEN Outcome("DuplicateEntry", NoRet, db)
         ELSE IF fault = "commit" THEN Failed("commit", db)
         ELSE Outcome("Ok", NoRet, r.db)

\* TagRepository::update
TagUpdateOutcome(db, id, new_name, fault) ==
    IF Trim(new_name) = <<>> THEN Outcome("Validation", NoRet, db)
    ELSE IF fault = "begin" THEN Failed("begin", db)
    ELSE LET r == ExecUpdateTag(db, id, Trim(new_name)) IN
         IF r.err = "UNIQUE" THEN Outcome("DuplicateEntry", NoRet, db)
         ELSE IF r.row = None THEN Outcome("NotFound", NoRet, db)
         ELSE IF fault = "commit" THEN Failed("commit", db)
         ELSE Outcome("Ok", r.row[1], r.db)

\* DELETE FROM tags WHERE id = ?
ExecDeleteTag(db, id) ==
    IF id \notin DOMAIN db.tags THEN [rows_affected |-> 0, db |-> db]
    ELSE [rows_affected |-> 1,
          db |-> [db EXCEPT !.tags = Restrict(db.tags, DOMAIN db.tags \ {id}),
                            !.post_tags = CascadeTag(db.post_tags, id)]]

\* mutant: the delete returns Ok without committing
TagDeleteOutcome_NoCommit(db, id, fault) ==
    IF fault = "begin" THEN Failed("begin", db)
    ELSE LET r == ExecDeleteTag(db, id) IN
         IF r.rows_affected = 0 THEN Outcome("NotFound", NoRet, db)
         ELSE IF fault = "commit" THEN Failed("commit", db)
         ELSE Outcome("Ok", NoRet, db)

\* TagRepository::delete
TagDeleteOutcome(db, id, fault) ==
    IF fault = "begin" THEN Failed("begin", db)
    ELSE LET r == ExecDeleteTag(db, id) IN
         IF r.rows_affected = 0 THEN Outcome("NotFound", NoRet, db)
         ELSE IF fault = "commit" THEN Failed("commit", db)
         ELSE Outcome("Ok", NoRet, r.db)

\* INSERT INTO post_tags (post_id, tag_id) VALUES (?, ?)
ExecInsertPostTag(db, post_id, tag_id) ==
    IF <<post_id, tag_id>> \in DOMAIN db.post_tags /\ ~PairUniqueOk(db.post_tags, post_id, tag_id)
    THEN [err |-> "UNIQUE", db |-> db]
    ELSE IF ~ForeignKeysOk(db, post_id, tag_id) THEN [err |-> "FOREIGN KEY", db |-> db]
    ELSE [err |-> "none",
          db |-> [db EXCEPT !.post_tags[<<post_id, tag_id>>] = @ + 1]]

\* mutant: the FOREIGN KEY constraint error is not mapped to NotFound
AddTagToPostOutcome_ForeignKeyUnmapped(db, post_id, tag_id, fault) ==
    IF fault = "begin" THEN Failed("begin", db)
    ELSE LET r == ExecInsertPostTag(db, post_id, tag_id) IN
         IF r.err = "FOREIGN KEY" THEN Outcome("Sqlx", NoRet, db)
         ELSE IF r.err = "UNIQUE" THEN Outcome("DuplicateEntry", NoRet, db)
         ELSE IF fault = "commit" THEN Failed("commit", db)
         ELSE Outcome("Ok", NoRet, r.db)

\* mutant: the insert is never committed
AddTagToPostOutcome_NoCommit(db, post_id, tag_id, fault) ==
    IF fault = "begin" THEN Failed("begin", db)
    ELSE LET r == ExecInsertPostTag(db, post_id, tag_id) IN
         IF r.err = "FOREIGN KEY" THEN Outcome("NotFound", NoRet, db)
         ELSE IF r.err = "UNIQUE" THEN Outcome("DuplicateEntry", NoRet, db)
         ELSE IF fault = "commit" THEN Failed("commit", db)
         ELSE Outcome("Ok", NoRet, db)

\* TagRepository::add_tag_to_post
AddTagToPostOutcome(db, post_id, tag_id, fault) ==
    IF fault = "begin" THEN Failed("begin", db)
    ELSE LET r == ExecInsertPostTag(db, post_id, tag_id) IN
         IF r.err = "FOREIGN KEY" THEN Outcome("NotFound", NoRet, db)
         ELSE IF r.err = "UNIQUE" THEN Outcome("DuplicateEntry", NoRet, db)
         ELSE IF fault = "commit" THEN Failed("commit", db)
         ELSE Outcome("Ok", NoRet, r.db)

\* DELETE FROM post_tags WHERE post_id = ? AND tag_id = ?
ExecDeletePostTag(db, post_id, tag_id) ==
    IF <<post_id, tag_id>> \in DOMAIN db.post_tags /\ db.post_tags[<<post_id, tag_id>>] > 0
    THEN [rows_affected |-> db.post_tags[<<post_id, tag_id>>],
          db |-> [db EXCEPT !.post_tags[<<post_id, tag_id>>] = 0]]
    ELSE [rows_affected |-> 0, db |-> db]

\* mutant: rows_affected() is not looked at
RemoveTagFromPostOutcome_IgnoresRowsAffected(db, post_id, tag_id, fault) ==
    IF fault = "begin" THEN Failed("begin", db)
    ELSE LET r == ExecDeletePostTag(db, post_id, tag_id) IN
         IF fault = "commit" THEN Failed("commit", db)
         ELSE Outcome("Ok", NoRet, r.db)

\* TagRepository::remove_tag_from_post
RemoveTagFromPostOutcome(db, post_id, tag_id, fault) ==
    IF fault = "begin" THEN Failed("begin", db)
    ELSE LET r == ExecDeletePostTag(db, post_id, tag_id) IN
         IF r.rows_affected = 0 THEN Outcome("NotFound", NoRet, db)
         ELSE IF fault = "commit" THEN Failed("commit", db)
         ELSE Outcome("Ok", NoRet, r.db)

\* FROM tags t JOIN post_tags pt ON t.id = pt.tag_id WHERE pt.post_id = ?: one
\* result row (tag, n) for the n-th post_tags row of the pair
TagsOfPost(db, post_id) ==
    UNION { { [tag |-> db.tags[t], n |-> n] : n \in 1..db.post_tags[<<post_id, t>>] } :
            t \in { t \in DOMAIN db.tags : <<post_id, t>> \in DOMAIN db.post_tags } }

\* the byte order of the characters (SQLite's BINARY collation)
CharCode(c) ==
    CASE c = " " -> 32 [] c = "!" -> 33 [] c = "-" -> 45
      [] c = "C" -> 67 [] c = "D" -> 68 [] c = "T" -> 84 [] c = "X" -> 88
      [] c = "a" -> 97 [] c = "b" -> 98 [] c = "e" -> 101 [] c = "i" -> 105
      [] c = "x" -> 120 [] c = "y" -> 121

RECURSIVE StrLess(_, _)
StrLess(a, b) ==
    IF b = <<>> THEN FALSE
    ELSE IF a = <<>> THEN TRUE
    ELSE IF Head(a) # Head(b) THEN CharCode(Head(a)) < CharCode(Head(b))
    ELSE StrLess(Tail(a), Tail(b))

\* mutant: the rows in descending order of name
RECURSIVE OrderByName_Desc(_)
OrderByName_Desc(rows) ==
    IF rows = {} THEN <<>>
    ELSE LET first == CHOOSE r \in rows : \A o \in rows : ~StrLess(r.tag.name, o.tag.name)
         IN <<first.tag>> \o OrderByName_Desc(rows \ {first})

\* ORDER BY t.name
RECURSIVE OrderByName(_)
OrderByName(rows) ==
    IF rows = {} THEN <<>>
    ELSE LET first == CHOOSE r \in rows : \A o \in rows : ~StrLess(o.tag.name, r.tag.name)
         IN <<first.tag>> \o OrderByName(rows \ {first})

\* TagRepository::list_tags_for_post
ListTagsForPost(db, post_id, fault) ==
    IF fault = "fetch" THEN Failed("fetch", db)
    ELSE Outcome("Ok", OrderByName(TagsOfPost(db, post_id)), db)

\* COUNT(pt.post_id) over the rows that LEFT JOIN post_tags pt ON t.id = pt.tag_id
\* gives for tag t: one for each association row, none for the all-null row
RECURSIVE CountPostId(_, _, _)
CountPostId(db, t, ps) ==
    IF ps = {} THEN 0
    ELSE LET p == CHOOSE p \in ps : TRUE
         IN db.post_tags[<<p, t>>] + CountPostId(db, t, ps \ {p})

TagWithPostCount(tag, post_count) ==
    [id |-> tag.id, name |-> tag.name, created_at |-> tag.created_at,
     post_count |-> post_count]

\* mutant: JOIN in place of LEFT JOIN
TagListOutcome_InnerJoin(db, include_post_count, fault) ==
    IF fault = "fetch" THEN Failed("fetch", db)
    ELSE LET count(t) == CountPostId(db, t, { p \in PostIds :
                                               <<p, t>> \in DOMAIN db.post_tags })
             rows == { [tag |-> TagWithPostCount(db.tags[t],
                                                 IF include_post_count THEN count(t) ELSE 0),
                        n |-> 1] :
                       t \in { t \in DOMAIN db.tags : ~include_post_count \/ count(t) > 0 } }
         IN Outcome("Ok", OrderByName(rows), db)

\* TagRepository::list
TagListOutcome(db, include_post_count, fault) ==
    IF fault = "fetch" THEN Failed("fetch", db)
    ELSE LET count(t) == CountPostId(db, t, { p \in PostIds :
                                               <<p, t>> \in DOMAIN db.post_tags })
             rows == { [tag |-> TagWithPostCount(db.tags[t],
                                                 IF include_post_count THEN count(t) ELSE 0),
                        n |-> 1] :
                       t \in DOMAIN db.tags }
         IN Outcome("Ok", OrderByName(rows), db)

\* ------------------------------------------------------------------ inputs
BasePost ==
    [category |-> "Blog", title |-> <<"T">>, slug |-> <<"a">>, content |-> <<"C">>,
     description |-> <<"D">>, image_url |-> None, external_url |-> None,
     published |-> TRUE]

CreateInputs ==
    { BasePost,
      [BasePost EXCEPT !.category = "Art", !.slug = <<"b">>, !.image_url = Some(<<"i">>),
                       !.published = FALSE],
      [BasePost EXCEPT !.title = <<" ">>, !.slug = <<"-", "a">>],
      [BasePost EXCEPT !.content = <<>>],
      [BasePost EXCEPT !.slug = <<"a", "-">>] }

UpdateBodies ==
    { [BasePost EXCEPT !.category = "Reading", !.title = <<"X">>, !.slug = <<"b">>,
                       !.external_url = Some(<<"e">>), !.published = FALSE],
      [BasePost EXCEPT !.content = <<" ">>] }

WithId(body, id) ==
    [id |-> id, category |-> body.category, title |-> body.title, slug |-> body.slug,
     content |-> body.content, description |-> body.description,
     image_url |-> body.image_url, external_url |-> body.external_url,
     published |-> body.published]

UpdateInputs == { WithId(b, id) : b \in UpdateBodies, id \in 0..MaxPostId }

NoPatch ==
    [category |-> None, title |-> None, slug |-> None, content |-> None,
     description |-> None, image_url |-> None, external_url |-> None, published |-> None]

PatchBodies ==
    { [NoPatch EXCEPT !.title = Some(<<"X">>), !.image_url = Some(<<"i">>)],
      [NoPatch EXCEPT !.published = Some(FALSE)],
      [NoPatch EXCEPT !.slug = Some(<<"b">>)],
      [NoPatch EXCEPT !.category = Some("Art"), !.content = Some(<<"x">>),
                      !.description = Some(<<"y">>)],
      [NoPatch EXCEPT !.title = Some(<<>>)],
      [NoPatch EXCEPT !.content = Some(<<" ">>), !.slug = Some(<<"-", "a">>)] }

PatchInputs == { WithId(b, id) : b \in PatchBodies, id \in PostIds }

TagNames == { <<"x">>, <<" ", "x", " ">>, <<"y">>, <<" ">>, <<"x", "!">> }

Faults == {"none", "begin", "commit"}

\* a query through the pool either runs or fails in fetch_all
ReadFaults == {"none", "fetch"}

ListInputs ==
    [category : {None, Some("Blog"), Some("Art")}, published_only : BOOLEAN,
     limit : {0, 1, 2, 100, 101}, offset : {-1, 0, 1}]

\* ----------------------------------------------------------------- actions
Done(c, op, arg, out) ==
    /\ last' = [op |-> op, arg |-> arg, res |-> out.res, ret |-> out.ret,
                fault |-> out.fault, pre |-> DB]
    /\ posts' = out.db.posts
    /\ tags' = out.db.tags
    /\ post_tags' = out.db.post_tags

StartCall(c) ==
    /\ calls < MaxCalls
    /\ calls' = calls + 1
    /\ inflight[c] = None

PostCreate(c) ==
    /\ StartCall(c)
    /\ \E post \in CreateInputs, fault \in Faults :
           LET id == GeneratedId(sqlite_sequence, "posts")
               out == PostCreateOutcome(DB, post, id, now, fault) IN
           /\ id \in PostIds
           /\ Done(c, "post_create", post, out)
           /\ sqlite_sequence' = IF out.res = "Ok" THEN [sqlite_sequence EXCEPT !.posts = id]
                                                   ELSE sqlite_sequence
           /\ UNCHANGED <<now, inflight, pool>>

PostUpdate(c) ==
    /\ StartCall(c)
    /\ \E post \in UpdateInputs, fault \in Faults :
           /\ Done(c, "post_update", post, PostUpdateOutcome(DB, post, now, fault))
           /\ UNCHANGED <<sqlite_sequence, now, inflight, pool>>

\* patch up to the await of find_by_id: the call goes on (res "Reading") when the
\* row was found, and returns otherwise
PatchRead(c) ==
    /\ StartCall(c)
    /\ \E patch \in PatchInputs, fault \in Faults :
           LET out == PatchReadOutcome(DB, patch, fault) IN
           /\ fault # "commit"
           /\ IF out.res = "Ok"
              THEN /\ inflight' = [inflight EXCEPT ![c] = Some([patch |-> patch, current |-> out.ret])]
                   /\ Done(c, "post_patch", patch, Outcome("Reading", NoRet, DB))
              ELSE /\ Done(c, "post_patch", patch, out)
                   /\ UNCHANGED inflight
           /\ UNCHANGED <<sqlite_sequence, now, pool>>

\* patch from the UPDATE to its return
PatchWrite(c) ==
    \E fault \in Faults \ {"begin"} :
        /\ inflight[c] # None
        /\ Done(c, "post_patch", inflight[c][1].patch,
                PatchWriteOutcome(DB, inflight[c][1].patch, inflight[c][1].current, now, fault))
        /\ inflight' = [inflight EXCEPT ![c] = None]
        /\ UNCHANGED <<sqlite_sequence, now, calls, pool>>

PostDelete(c) ==
    /\ StartCall(c)
    /\ \E id \in PostIds, fault \in Faults :
           /\ Done(c, "post_delete", id, PostDeleteOutcome(DB, id, fault))
           /\ UNCHANGED <<sqlite_sequence, now, inflight, pool>>

TagCreate(c) ==
    /\ StartCall(c)
    /\ \E name \in TagNames, fault \in Faults :
           LET id == GeneratedId(sqlite_sequence, "tags")
               out == TagCreateOutcome(DB, name, id, now, fault) IN
           /\ id \in TagIds
           /\ Done(c, "tag_create", name, out)
           /\ sqlite_sequence' = IF out.res = "Ok" THEN [sqlite_sequence EXCEPT !.tags = id]
                                                   ELSE sqlite_sequence
           /\ UNCHANGED <<now, inflight, pool>>

TagUpdate(c) ==
    /\ StartCall(c)
    /\ \E id \in TagIds, name \in TagNames, fault \in Faults :
           /\ Done(c, "tag_update", [id |-> id, name |-> name], TagUpdateOutcome(DB, id, name, fault))
           /\ UNCHANGED <<sqlite_sequence, now, inflight, pool>>

TagDelete(c) ==
    /\ StartCall(c)
    /\ \E id \in TagIds, fault \in Faults :
           /\ Done(c, "tag_delete", id, TagDeleteOutcome(DB, id, fault))
           /\ UNCHANGED <<sqlite_sequence, now, inflight, pool>>

AddTagToPost(c) ==
    /\ StartCall(c)
    /\ \E post_id \in PostIds, tag_id \in TagIds, fault \in Faults :
           /\ Done(c, "add_tag_to_post", [post_id |-> post_id, tag_id |-> tag_id],
                   AddTagToPostOutcome(DB, post_id, tag_id, fault))
           /\ UNCHANGED <<sqlite_sequence, now, inflight, pool>>

RemoveTagFromPost(c) ==
    /\ StartCall(c)
    /\ \E post_id \in PostIds, tag_id \in TagIds, fault \in Faults :
           /\ Done(c, "remove_tag_from_post", [post_id |-> post_id, tag_id |-> tag_id],
                   RemoveTagFromPostOutcome(DB, post_id, tag_id, fault))
           /\ UNCHANGED <<sqlite_sequence, now, inflight, pool>>

PostList(c) ==
    /\ StartCall(c)
    /\ \E a \in ListInputs, fault \in ReadFaults :
           \E out \in PostListOutcomes(DB, a.category, a.published_only, a.limit, a.offset, fault) :
               /\ Done(c, "post_list", a, out)
               /\ UNCHANGED <<sqlite_sequence, now, inflight, pool>>

TagList(c) ==
    /\ StartCall(c)
    /\ \E include_post_count \in BOOLEAN, fault \in ReadFaults :
           /\ Done(c, "tag_list", include_post_count,
                   TagListOutcome(DB, include_post_count, fault))
           /\ UNCHANGED <<sqlite_sequence, now, inflight, pool>>

TagListForPost(c) ==
    /\ StartCall(c)
    /\ \E post_id \in 0..MaxPostId, fault \in ReadFaults :
           /\ Done(c, "list_tags_for_post", post_id, ListTagsForPost(DB, post_id, fault))
           /\ UNCHANGED <<sqlite_sequence, now, inflight, pool>>

\* the store clock advances
Tick ==
    /\ now < MaxClock
    /\ now' = now + 1
    /\ last' = [op |-> "tick", arg |-> None, res |-> "Ok", ret |-> NoRet,
                fault |-> "none", pre |-> DB]
    /\ UNCHANGED <<posts, tags, post_tags, sqlite_sequence, inflight, calls, pool>>

Init ==
    /\ posts = <<>>
    /\ tags = <<>>
    /\ post_tags = [k \in PostIds \X TagIds |-> 0]
    /\ sqlite_sequence = [posts |-> 0, tags |-> 0]
    /\ now = 0
    /\ inflight = [c \in Callers |-> None]
    /\ pool = [c \in Callers |-> Idle]
    /\ last = [op |-> "init", arg |-> None, res |-> "Ok", ret |-> NoRet,
               fault |-> "none", pre |-> DB]
    /\ calls = 0

Next ==
    \/ \E c \in Callers : PostCreate(c)
    \/ \E c \in Callers : PostUpdate(c)
    \/ \E c \in Callers : PatchRead(c)
    \/ \E c \in Callers : PatchWrite(c)
    \/ \E c \in Callers : PostDelete(c)
    \/ \E c \in Callers : TagCreate(c)
    \/ \E c \in Callers : TagUpdate(c)
    \/ \E c \in Callers : TagDelete(c)
    \/ \E c \in Callers : AddTagToPost(c)
    \/ \E c \in Callers : RemoveTagFromPost(c)
    \/ Tick

Spec == Init /\ [][Next]_vars

\* ------------------------------------------------- a store with content
\* The stores that successful create and add_tag_to_post calls build: posts 1..n
\* from valid inputs with distinct slugs, created in the order of their ids; tags
\* 1..m with distinct trimmed names; any associations between them.  One more
\* call, or a query, is then made on such a store.
ValidCreateInputs == { p \in CreateInputs : CreatePost_validate(p) = "Ok" }

StoredNames == { Trim(n) : n \in TagNames } \ { <<>> }

NoDB == [posts |-> <<>>, tags |-> <<>>, post_tags |-> [k \in PostIds \X TagIds |-> 0]]

SeededInit ==
    \E n \in 0..MaxPostId, m \in 0..MaxTagId :
      \E input \in [1..n -> ValidCreateInputs], at \in [1..n -> 0..MaxClock],
         name \in [1..m -> StoredNames], pairs \in SUBSET ((1..n) \X (1..m)) :
        /\ \A i, j \in 1..n : i # j => input[i].slug # input[j].slug
        /\ \A i, j \in 1..n : i < j => at[i] <= at[j]
        /\ \A i, j \in 1..m : i # j => name[i] # name[j]
        /\ posts = [i \in 1..n |-> ExecInsertPost(NoDB, input[i], i, at[i]).row]
        /\ tags = [i \in 1..m |-> ExecInsertTag(NoDB, name[i], i, 0).row]
        /\ post_tags = [k \in PostIds \X TagIds |-> IF k \in pairs THEN 1 ELSE 0]
        /\ sqlite_sequence = [posts |-> n, tags |-> m]
        /\ now \in { t \in 0..MaxClock : \A i \in 1..n : at[i] <= t }
        /\ inflight = [c \in Callers |-> None]
        /\ pool = [c \in Callers |-> Idle]
        /\ last = [op |-> "init", arg |-> None, res |-> "Ok", ret |-> NoRet,
                   fault |-> "none",
                   pre |-> [posts |-> posts, tags |-> tags, post_tags |-> post_tags]]
        /\ calls = MaxCalls - 1

SeededNext ==
    \/ Next
    \/ \E c \in Callers : PostList(c)
    \/ \E c \in Callers : TagListForPost(c)
    \/ \E c \in Callers : TagList(c)

SeededSpec == SeededInit /\ [][SeededNext]_vars

\* ------------------------------------------------ a call that is abandoned
\* The caller drops the future of a repository call while it is suspended in
\* pool.begin(), in the statement, or in tx.commit().  The transaction `tx` is a
\* local of the call: dropped without a commit it rolls back; dropped while the
\* commit is in progress the commit has either happened or not.
SuspensionPoints == {"begin", "statement", "commit"}

\* mutant: a dropped transaction keeps the rows its statement wrote, without
\* what the statement cascaded to
AbandonedStores_Partial(db, completed, point) ==
    IF point = "begin" THEN { db }
    ELSE { [db EXCEPT !.posts = completed.posts, !.tags = completed.tags] }

\* the stores an abandoned call may leave: db before the call, completed after it
AbandonedStores(db, completed, point) ==
    IF point = "commit" THEN { db, completed } ELSE { db }

AbandonableOps ==
    {"post_create", "post_update", "post_delete", "tag_create", "tag_update",
     "tag_delete", "add_tag_to_post", "remove_tag_from_post"}

PairInputs == [post_id : PostIds, tag_id : TagIds]

TagUpdateInputs == [id : TagIds, name : TagNames]

CallInputs(op) ==
    CASE op = "post_create" -> CreateInputs
      [] op = "post_update" -> UpdateInputs
      [] op = "post_delete" -> PostIds
      [] op = "tag_create" -> TagNames
      [] op = "tag_update" -> TagUpdateInputs
      [] op = "tag_delete" -> TagIds
      [] op = "add_tag_to_post" -> PairInputs
      [] op = "remove_tag_from_post" -> PairInputs

\* the call run to its end with no store failure
Complete(db, op, arg, seq, t) ==
    CASE op = "post_create" -> PostCreateOutcome(db, arg, GeneratedId(seq, "posts"), t, "none")
      [] op = "post_update" -> PostUpdateOutcome(db, arg, t, "none")
      [] op = "post_delete" -> PostDeleteOutcome(db, arg, "none")
      [] op = "tag_create" -> TagCreateOutcome(db, arg, GeneratedId(seq, "tags"), t, "none")
      [] op = "tag_update" -> TagUpdateOutcome(db, arg.id, arg.name, "none")
      [] op = "tag_delete" -> TagDeleteOutcome(db, arg, "none")
      [] op = "add_tag_to_post" -> AddTagToPostOutcome(db, arg.post_id, arg.tag_id, "none")
      [] op = "remove_tag_from_post" ->
             RemoveTagFromPostOutcome(db, arg.post_id, arg.tag_id, "none")

Abandoned(point, db) == [res |-> "Abandoned", ret |-> NoRet, db |-> db, fault |-> point]

Abandon(c) ==
    /\ StartCall(c)
    /\ \E op \in AbandonableOps, point \in SuspensionPoints :
         \E arg \in CallInputs(op) :
           /\ op = "post_create" => GeneratedId(sqlite_sequence, "posts") \in PostIds
           /\ op = "tag_create" => GeneratedId(sqlite_sequence, "tags") \in TagIds
           /\ \E db \in AbandonedStores(DB, Complete(DB, op, arg, sqlite_sequence, now).db, point) :
                /\ Done(c, op, arg, Abandoned(point, db))
                /\ sqlite_sequence' =
                       [posts |-> IF DOMAIN db.posts \subseteq DOMAIN posts
                                  THEN sqlite_sequence.posts
                                  ELSE GeneratedId(sqlite_sequence, "posts"),
                        tags |-> IF DOMAIN db.tags \subseteq DOMAIN tags
                                 THEN sqlite_sequence.tags
                                 ELSE GeneratedId(sqlite_sequence, "tags")]
           /\ UNCHANGED <<now, inflight, pool>>

\* a patch is abandoned after its read: in the UPDATE or in the commit
PatchAbandon(c) ==
    /\ inflight[c] # None
    /\ \E point \in SuspensionPoints \ {"begin"} :
         \E db \in AbandonedStores(DB, PatchWriteOutcome(DB, inflight[c][1].patch,
                                                         inflight[c][1].current, now, "none").db,
                                   point) :
           Done(c, "post_patch", inflight[c][1].patch, Abandoned(point, db))
    /\ inflight' = [inflight EXCEPT ![c] = None]
    /\ UNCHANGED <<sqlite_sequence, now, calls, pool>>

AbandonNext ==
    \/ \E c \in Callers : Abandon(c)
    \/ \E c \in Callers : PatchRead(c)
    \/ \E c \in Callers : PatchAbandon(c)
    \/ Tick

AbandonSpec == SeededInit /\ [][AbandonNext]_vars

\* ------------------------------------------------------- the HTTP boundary
\* DatabaseError's variants
DatabaseErrorKinds ==
    {"Sqlx", "Migration", "Configuration", "Validation", "NotFound", "DuplicateEntry",
     "Transaction"}

\* ApiError::Database(DatabaseError) (#[from]) | ApiError::InvalidInput(String)
ApiDatabase(kind) == [api |-> "Database", kind |-> kind]

ApiInvalidInput == [api |-> "InvalidInput", kind |-> "InvalidInput"]

ApiErrors == { ApiDatabase(k) : k \in DatabaseErrorKinds } \cup { ApiInvalidInput }

\* mutant: a duplicate is answered like any other store failure
into_response_NoConflict(err) ==
    IF err.api = "Database" /\ err.kind = "NotFound" THEN 404
    ELSE IF err.api = "Database" /\ err.kind = "Validation" THEN 400
    ELSE IF err.api = "InvalidInput" THEN 400
    ELSE 500

\* impl IntoResponse for ApiError: the status of the response
into_response(err) ==
    IF err.api = "Database" /\ err.kind = "NotFound" THEN 404
    ELSE IF err.api = "Database" /\ err.kind = "DuplicateEntry" THEN 409
    ELSE IF err.api = "Database" /\ err.kind = "Validation" THEN 400
    ELSE IF err.api = "InvalidInput" THEN 400
    ELSE 500

\* Err(e) => e.into_response(); Ok(v) => Json(v), status 200
Response(err, body, db, fault) ==
    [res |-> IF err = None THEN "Ok" ELSE err.kind,
     ret |-> [status |-> IF err = None THEN 200 ELSE into_response(err), body |-> body],
     db |-> db, fault |-> fault]

\* a handler's `repository_call.await?` followed by Ok(Json(..))
Respond(out) ==
    Response(IF out.res = "Ok" THEN None ELSE ApiDatabase(out.res), out.ret, out.db, out.fault)

CategoryStrings ==
    { <<"b", "l", "o", "g">>, <<"B", "l", "o", "g">>, <<"A", "R", "T">>,
      <<"r", "e", "a", "d", "i", "n", "g">>, <<"b", "l", "o">>, <<>> }

ListPostsQueries ==
    [category : {None} \cup { Some(s) : s \in CategoryStrings }, published_only : BOOLEAN,
     limit : {0, 2, 101}, offset : {-1, 0}]

create_tag(c) ==
    /\ StartCall(c)
    /\ \E name \in TagNames, fault \in Faults :
           LET id == GeneratedId(sqlite_sequence, "tags")
               out == IF ~is_valid_name(name)
                      THEN Response(ApiInvalidInput, NoRet, DB, "none")
                      ELSE Respond(TagCreateOutcome(DB, name, id, now, fault)) IN
           /\ id \in TagIds
           /\ Done(c, "create_tag", name, out)
           /\ sqlite_sequence' = IF out.res = "Ok" THEN [sqlite_sequence EXCEPT !.tags = id]
                                                   ELSE sqlite_sequence
           /\ UNCHANGED <<now, inflight, pool>>

list_posts(c) ==
    /\ StartCall(c)
    /\ \E query \in ListPostsQueries, fault \in ReadFaults :
           LET parsed == IF query.category = None THEN [ok |-> TRUE, value |-> None]
                         ELSE from_str(query.category[1])
               category == IF parsed.value = None THEN None ELSE Some(parsed.value) IN
           /\ \E out \in IF ~parsed.ok
                          THEN { Response(ApiInvalidInput, NoRet, DB, "none") }
                          ELSE { Respond(o) :
                                   o \in PostListOutcomes(DB, category, query.published_only,
                                                          query.limit, query.offset, fault) } :
                  Done(c, "list_posts", query, out)
           /\ UNCHANGED <<sqlite_sequence, now, inflight, pool>>

\* any ApiError converted to a response
IntoResponse ==
    /\ \E err \in ApiErrors :
           last' = [op |-> "into_response", arg |-> err, res |-> err.kind,
                    ret |-> [status |-> into_response(err), body |-> NoRet],
                    fault |-> "none", pre |-> DB]
    /\ UNCHANGED <<posts, tags, post_tags, now, sqlite_sequence, inflight, calls, pool>>

BoundaryNext ==
    \/ \E c \in Callers : create_tag(c)
    \/ \E c \in Callers : list_posts(c)
    \/ IntoResponse
    \/ Tick

BoundarySpec == Init /\ [][BoundaryNext]_vars

\* ------------------------------------------------- validation of any input
PostTitles == { <<"T">>, <<" ">>, <<>> }

PostContents == { <<"C">>, <<" ">>, <<>> }

PostSlugs == { <<"a">>, <<"a", "-", "b">>, <<"-", "a">>, <<"a", "-">>, <<"a", " ">>, <<>> }

ValidateCreateInputs ==
    { [BasePost EXCEPT !.title = t, !.content = k, !.slug = s] :
        t \in PostTitles, k \in PostContents, s \in PostSlugs }

ValidateUpdateInputs == { WithId(b, id) : b \in ValidateCreateInputs, id \in {-1, 0, 1} }

CreatePostValidate ==
    /\ \E post \in ValidateCreateInputs :
           last' = [op |-> "CreatePost_validate", arg |-> post,
                    res |-> CreatePost_validate(post), ret |-> NoRet,
                    fault |-> "none", pre |-> DB]
    /\ UNCHANGED <<posts, tags, post_tags, now, sqlite_sequence, inflight, calls, pool>>

UpdatePostValidate ==
    /\ \E post \in ValidateUpdateInputs :
           last' = [op |-> "UpdatePost_validate", arg |-> post,
                    res |-> UpdatePost_validate(post), ret |-> NoRet,
                    fault |-> "none", pre |-> DB]
    /\ UNCHANGED <<posts, tags, post_tags, now, sqlite_sequence, inflight, calls, pool>>

PostCategories == {"Blog", "Art", "Reading"}

ToUpper(ch) ==
    CASE ch = "b" -> "B" [] ch = "l" -> "L" [] ch = "o" -> "O" [] ch = "g" -> "G"
      [] ch = "a" -> "A" [] ch = "r" -> "R" [] ch = "t" -> "T" [] ch = "e" -> "E"
      [] ch = "d" -> "D" [] ch = "i" -> "I" [] ch = "n" -> "N"
      [] OTHER -> ch

\* a string in every letter case
RECURSIVE LetterCases(_)
LetterCases(s) ==
    IF s = <<>> THEN { <<>> }
    ELSE { <<h>> \o t : h \in { Head(s), ToUpper(Head(s)) }, t \in LetterCases(Tail(s)) }

CodecStrings ==
    UNION { LetterCases(CategoryToString(c)) : c \in PostCategories }
    \cup { <<>>, <<"b", "l", "o">>, <<"b", "l", "o", "g", "s">>, <<" ", "a", "r", "t">>,
           <<"a", "r", "t", " ">>, <<"n", "e", "w", "s">>, <<"B", "l", "o", "g", "-">>,
           <<"a", "r", "t", "e">> }

PostCategoryToString ==
    /\ \E c \in PostCategories :
           last' = [op |-> "to_string", arg |-> c, res |-> "Ok", ret |-> CategoryToString(c),
                    fault |-> "none", pre |-> DB]
    /\ UNCHANGED <<posts, tags, post_tags, now, sqlite_sequence, inflight, calls, pool>>

PostCategoryFromStr ==
    /\ \E s \in CodecStrings :
           LET r == from_str(s) IN
           last' = [op |-> "from_str", arg |-> s, res |-> IF r.ok THEN "Ok" ELSE "Err",
                    ret |-> r.value, fault |-> "none", pre |-> DB]
    /\ UNCHANGED <<posts, tags, post_tags, now, sqlite_sequence, inflight, calls, pool>>

\* characters for slugs: a letter of each case, a digit, the hyphen, and four
\* that are not ASCII alphanumerics (the last a letter outside ASCII)
SlugChars == {"a", "Z", "9", "-", "_", " ", "!", "é"}

\* every string of up to three characters, and two characters around "--"
SlugStrings ==
    UNION { [1..n -> SlugChars] : n \in 0..3 }
    \cup { <<h, "-", "-", t>> : h \in SlugChars, t \in SlugChars }

IsValidSlug ==
    /\ \E slug \in SlugStrings :
           last' = [op |-> "is_valid_slug", arg |-> slug, res |-> "Ok",
                    ret |-> is_valid_slug(slug), fault |-> "none", pre |-> DB]
    /\ UNCHANGED <<posts, tags, post_tags, now, sqlite_sequence, inflight, calls, pool>>

ValidationNext ==
    \/ IsValidSlug
    \/ CreatePostValidate
    \/ UpdatePostValidate
    \/ PostCategoryToString
    \/ PostCategoryFromStr

ValidationSpec == Init /\ [][ValidationNext]_vars

\* ------------------------------------------------------ the connection pool
\* The calls seen as users of the pool alone: pool.begin() takes a connection
\* for the transaction, a query on &self.pool takes one for the query and gives
\* it back, commit or return gives the transaction's back.  An acquire waits
\* while no connection is free.
PoolSize == Cardinality(Callers)

RECURSIVE Held(_)
Held(cs) ==
    IF cs = {} THEN 0
    ELSE LET c == CHOOSE c \in cs : TRUE IN pool[c].held + Held(cs \ {c})

Free == PoolSize - Held(Callers)

PoolStep(c, from, to, held) ==
    /\ pool[c].at = from
    /\ pool' = [pool EXCEPT ![c] = [at |-> to, held |-> held]]
    /\ last' = [op |-> "pool", arg |-> from, res |-> to, ret |-> NoRet,
                fault |-> "none", pre |-> DB]
    /\ UNCHANGED <<posts, tags, post_tags, sqlite_sequence, now, inflight>>

\* PostRepository::patch is called
PoolPatchCall(c) ==
    /\ StartCall(c)
    /\ PoolStep(c, "idle", "patch: begin", 0)

\* let mut tx = self.pool.begin().await
PoolPatchBegin(c) ==
    /\ Free > 0
    /\ PoolStep(c, "patch: begin", "patch: find_by_id", 1)
    /\ UNCHANGED calls

\* self.find_by_id(patch.id): fetch_optional(&self.pool) acquires a connection
PoolPatchFindById(c) ==
    /\ Free > 0
    /\ PoolStep(c, "patch: find_by_id", "patch: fetch_optional", 2)
    /\ UNCHANGED calls

\* the query is done and its connection goes back to the pool
PoolPatchFetched(c) ==
    /\ PoolStep(c, "patch: fetch_optional", "patch: update", 1)
    /\ UNCHANGED calls

\* the UPDATE and the commit on tx, or an early return: tx's connection goes back
PoolPatchReturn(c) ==
    /\ PoolStep(c, "patch: update", "idle", 0)
    /\ UNCHANGED calls

\* any other repository call is called: it uses pool.begin() or &self.pool once
PoolOtherCall(c) ==
    /\ StartCall(c)
    /\ PoolStep(c, "idle", "other: acquire", 0)

PoolOtherAcquire(c) ==
    /\ Free > 0
    /\ PoolStep(c, "other: acquire", "other: run", 1)
    /\ UNCHANGED calls

PoolOtherReturn(c) ==
    /\ PoolStep(c, "other: run", "idle", 0)
    /\ UNCHANGED calls

PoolNext ==
    \/ \E c \in Callers : PoolPatchCall(c)
    \/ \E c \in Callers : PoolPatchBegin(c)
    \/ \E c \in Callers : PoolPatchFindById(c)
    \/ \E c \in Callers : PoolPatchFetched(c)
    \/ \E c \in Callers : PoolPatchReturn(c)
    \/ \E c \in Callers : PoolOtherCall(c)
    \/ \E c \in Callers : PoolOtherAcquire(c)
    \/ \E c \in Callers : PoolOtherReturn(c)

PoolSpec == Init /\ [][PoolNext]_vars

\* ------------------------------------------------------------------ claims
PatchFields ==
    {"category", "title", "slug", "content", "description", "image_url",
     "external_url", "published"}

OptionFields == {"image_url", "external_url"}

PostOk(op) == last.op = op /\ last.res = "Ok"

\* the stored row holds every value the patch supplies
Carries(row, patch) ==
    \A f \in PatchFields :
        patch[f] # None =>
            IF f \in OptionFields THEN row[f] = patch[f] ELSE DecodePost(row)[f] = patch[f][1]

Disjoint(p, q) == \A f \in PatchFields : p[f] = None \/ q[f] = None

\* C1: two patch calls on the same post that set disjoint fields and both return
\* success leave a row that carries both patched values (no lost update): when the
\* write of one patch follows directly on the successful write of the other, the
\* row afterwards holds the values of both.
C1_NoLostUpdate ==
    [][ ( /\ last.op = "post_patch" /\ last.res = "Ok"
          /\ last'.op = "post_patch" /\ last'.res = "Ok"
          /\ calls' = calls
          /\ last'.arg.id = last.arg.id
          /\ Disjoint(last.arg, last'.arg) )
        => ( /\ Carries(posts'[last.arg.id], last.arg)
             /\ Carries(posts'[last.arg.id], last'.arg) ) ]_vars

\* C2: no two stored posts have the same slug.
C2_SlugsUnique ==
    \A i \in DOMAIN posts : \A j \in DOMAIN posts : i # j => posts[i].slug # posts[j].slug

\* C2 witness: two posts are stored and a call was just refused for its slug
C2_Witness ==
    /\ Cardinality(DOMAIN posts) = 2
    /\ last.res = "DuplicateEntry"
    /\ last.op \in {"post_create", "post_update", "post_patch"}

SlugWellFormed(s) ==
    /\ Len(s) > 0
    /\ \A i \in 1..Len(s) : s[i] \in AsciiAlnum \cup {"-"}
    /\ s[1] # "-"
    /\ s[Len(s)] # "-"

\* C3: every stored post has a title and a content that are non-empty after
\* trimming and a well-formed slug.
C3_StoredPostsValid ==
    \A i \in DOMAIN posts :
        /\ Trim(posts[i].title) # <<>>
        /\ Trim(posts[i].content) # <<>>
        /\ SlugWellFormed(posts[i].slug)

MutatingOps ==
    {"post_create", "post_update", "post_patch", "post_delete", "tag_create",
     "tag_update", "tag_delete", "add_tag_to_post", "remove_tag_from_post"}

ErrorKinds == {"Validation", "NotFound", "DuplicateEntry", "Sqlx"}

\* C4: a mutating call that returns an error leaves posts, tags and associations
\* exactly as they were before the call.
C4_ErrorLeavesStoreUnchanged ==
    (last.op \in MutatingOps /\ last.res \in ErrorKinds) => DB = last.pre

\* C4 witness: a patch whose UPDATE ran inside the transaction and was refused
C4_Witness ==
    /\ last.op = "post_patch"
    /\ last.res = "DuplicateEntry"
    /\ DOMAIN posts # {}

CreateFields ==
    {"category", "title", "slug", "content", "description", "image_url",
     "external_url", "published"}

\* C5: create with a valid input whose slug no stored post uses succeeds (no store
\* failure given), returns a record equal to the input in every input field, and
\* find_by_id(returned id) and find_by_slug(input slug) then return that record.
C5_CreateThenFind ==
    ( /\ last.op = "post_create"
      /\ CreatePost_validate(last.arg) = "Ok"
      /\ \A i \in DOMAIN last.pre.posts : last.pre.posts[i].slug # last.arg.slug
      /\ last.fault = "none" )
    => ( /\ last.res = "Ok"
         /\ \A f \in CreateFields : last.ret[f] = last.arg[f]
         /\ last.ret.id \notin DOMAIN last.pre.posts
         /\ FindById(DB, last.ret.id).res = "Ok"
         /\ FindById(DB, last.ret.id).ret = last.ret
         /\ FindBySlug(DB, last.arg.slug).res = "Ok"
         /\ FindBySlug(DB, last.arg.slug).ret = last.ret )

\* C5 witness: a second post was created beside a stored one
C5_Witness ==
    /\ PostOk("post_create")
    /\ DOMAIN last.pre.posts # {}

\* C6: create with a valid input whose slug a stored post already has returns
\* DuplicateEntry (no store failure given), creates no post and leaves the stored
\* posts unchanged in every field.
C6_DuplicateSlugRefused ==
    ( /\ last.op = "post_create"
      /\ CreatePost_validate(last.arg) = "Ok"
      /\ \E i \in DOMAIN last.pre.posts : last.pre.posts[i].slug = last.arg.slug
      /\ last.fault = "none" )
    => ( /\ last.res = "DuplicateEntry"
         /\ posts = last.pre.posts )

\* C6 witness: a create was refused as a duplicate
C6_Witness ==
    /\ last.op = "post_create"
    /\ last.res = "DuplicateEntry"
    /\ \E i \in DOMAIN posts : posts[i].slug = last.arg.slug

FrameFields == {"category", "title", "slug", "content", "description", "published"}

\* C7: a successful patch changes exactly the fields present in the patch: each of
\* category, title, slug, content, description and published is the patch value if
\* present and the pre-patch value if absent; id and created_at are unchanged and
\* no other post is modified.
C7_PatchChangesOnlyPresentFields ==
    PostOk("post_patch") =>
        LET id == last.arg.id
            before == DecodePost(last.pre.posts[id])
            after == DecodePost(posts[id])
        IN /\ \A f \in FrameFields :
                after[f] = IF last.arg[f] # None THEN last.arg[f][1] ELSE before[f]
           /\ after.id = before.id
           /\ after.created_at = before.created_at
           /\ DOMAIN posts = DOMAIN last.pre.posts
           /\ \A j \in DOMAIN posts \ {id} : posts[j] = last.pre.posts[j]

EditOk == PostOk("post_update") \/ PostOk("post_patch")

\* C8 (as claimed): after every successful update or patch the post's updated_at is
\* strictly greater than before the call, also within one tick of the store clock.
C8_UpdatedAtStrictlyIncreases ==
    EditOk => posts[last.arg.id].updated_at > last.pre.posts[last.arg.id].updated_at

\* C8 (amended): after every successful update or patch the post's updated_at is the
\* store's current time, and so never smaller than before the call.
C8_UpdatedAtIsNow ==
    EditOk => /\ posts[last.arg.id].updated_at = now
              /\ posts[last.arg.id].updated_at >= last.pre.posts[last.arg.id].updated_at

\* C8 witness: an update or patch after the store clock has advanced
C8_Witness ==
    /\ EditOk
    /\ posts[last.arg.id].updated_at > last.pre.posts[last.arg.id].updated_at

\* C9: after a successful delete of a post, no association with its id remains and
\* list_tags_for_post(id) returns the empty sequence without error; associations of
\* other posts, and the tags, are as before.
C9_DeleteCascades ==
    PostOk("post_delete") =>
        LET id == last.arg IN
        /\ id \notin DOMAIN posts
        /\ \A k \in DOMAIN post_tags : k[1] = id => post_tags[k] = 0
        /\ \A k \in DOMAIN post_tags : k[1] # id => post_tags[k] = last.pre.post_tags[k]
        /\ ListTagsForPost(DB, id, "none").res = "Ok"
        /\ ListTagsForPost(DB, id, "none").ret = <<>>
        /\ tags = last.pre.tags

\* C9 witness: the deleted post had a tag
C9_Witness ==
    /\ PostOk("post_delete")
    /\ \E k \in DOMAIN post_tags : k[1] = last.arg /\ last.pre.post_tags[k] > 0

\* C10: every stored association references a post and a tag that exist, and no
\* (post_id, tag_id) pair is stored more than once.
C10_ReferentialIntegrity ==
    \A k \in DOMAIN post_tags :
        /\ post_tags[k] <= 1
        /\ post_tags[k] > 0 => (k[1] \in DOMAIN posts /\ k[2] \in DOMAIN tags)

\* C10 witness: a tag that had a post was deleted, or an association was refused
\* as a duplicate, while an association is stored
C10_Witness ==
    \/ /\ PostOk("tag_delete")
       /\ \E k \in DOMAIN post_tags : k[2] = last.arg /\ last.pre.post_tags[k] > 0
    \/ /\ last.op = "add_tag_to_post"
       /\ last.res = "DuplicateEntry"

Pair(a) == <<a.post_id, a.tag_id>>

Associated(pt, k) == k \in DOMAIN pt /\ pt[k] > 0

\* C11: add_tag_to_post where the post or the tag does not exist returns NotFound
\* (the transaction having begun), and posts, tags and associations are as before:
\* no association row is created.
C11_AddToMissingIsNotFound ==
    ( /\ last.op = "add_tag_to_post"
      /\ last.fault # "begin"
      /\ \/ last.arg.post_id \notin DOMAIN last.pre.posts
         \/ last.arg.tag_id \notin DOMAIN last.pre.tags )
    => ( /\ last.res = "NotFound"
         /\ post_tags = last.pre.post_tags
         /\ DB = last.pre )

\* C11 witness: the post exists, the tag does not, and other associations are stored
C11_Witness ==
    /\ last.op = "add_tag_to_post"
    /\ last.res = "NotFound"
    /\ last.arg.post_id \in DOMAIN posts
    /\ last.arg.tag_id \notin DOMAIN tags
    /\ \E k \in DOMAIN post_tags : post_tags[k] > 0

\* C12: add_tag_to_post for an existing post and an existing tag (no store failure
\* given) adds exactly the association (post_id, tag_id) when it is absent, and
\* returns DuplicateEntry with the associations unchanged when it is present.
C12_AddAssociates ==
    ( /\ last.op = "add_tag_to_post"
      /\ last.fault = "none"
      /\ last.arg.post_id \in DOMAIN last.pre.posts
      /\ last.arg.tag_id \in DOMAIN last.pre.tags )
    => IF Associated(last.pre.post_tags, Pair(last.arg))
       THEN /\ last.res = "DuplicateEntry"
            /\ DB = last.pre
       ELSE /\ last.res = "Ok"
            /\ post_tags = [last.pre.post_tags EXCEPT ![Pair(last.arg)] = 1]
            /\ posts = last.pre.posts
            /\ tags = last.pre.tags

\* C12 witness: an association was added beside another one of the same post
C12_Witness ==
    /\ PostOk("add_tag_to_post")
    /\ \E k \in DOMAIN post_tags :
           /\ k # Pair(last.arg)
           /\ k[1] = last.arg.post_id
           /\ post_tags[k] > 0

\* C13: remove_tag_from_post returns NotFound and changes nothing when the
\* association does not exist, whether or not the post and the tag exist; when it
\* exists the call (no store failure given) removes exactly that association and
\* leaves the other associations, the posts and the tags unchanged.
C13_RemoveDissociates ==
    ( last.op = "remove_tag_from_post" /\ last.fault # "begin" )
    => IF ~Associated(last.pre.post_tags, Pair(last.arg))
       THEN /\ last.res = "NotFound"
            /\ DB = last.pre
       ELSE last.fault = "none" =>
            /\ last.res = "Ok"
            /\ post_tags = [last.pre.post_tags EXCEPT ![Pair(last.arg)] = 0]
            /\ posts = last.pre.posts
            /\ tags = last.pre.tags

\* C13 witness: an association was removed and another one is still stored
C13_Witness ==
    /\ PostOk("remove_tag_from_post")
    /\ Associated(last.pre.post_tags, Pair(last.arg))
    /\ \E k \in DOMAIN post_tags : post_tags[k] > 0

\* C14: for every post id, whether or not a post has it, list_tags_for_post (the
\* query not failing) returns exactly the tags associated with that id, each once,
\* in ascending order of name; it is the empty sequence, never NotFound, when
\* there are none.
C14_ListTagsForPost ==
    ( last.op = "list_tags_for_post" /\ last.fault = "none" )
    => LET r == last.ret
           assoc == { t \in DOMAIN tags : Associated(post_tags, <<last.arg, t>>) }
       IN /\ last.res = "Ok"
          /\ { r[i] : i \in DOMAIN r } = { tags[t] : t \in assoc }
          /\ Len(r) = Cardinality(assoc)
          /\ \A i, j \in DOMAIN r : i < j => StrLess(r[i].name, r[j].name)
          /\ assoc = {} => r = <<>>

\* C14 witness: a post with two tags was listed
C14_Witness ==
    /\ PostOk("list_tags_for_post")
    /\ last.arg \in DOMAIN posts
    /\ Len(last.ret) = 2

\* C15: list returns a Validation error when limit < 1 or limit > 100 or
\* offset < 0; an accepted call (the query not failing) returns at most limit
\* posts, and so never more than 100.
C15_ListValidatesPage ==
    last.op = "post_list"
    => IF last.arg.limit < 1 \/ last.arg.limit > 100 \/ last.arg.offset < 0
       THEN last.res = "Validation"
       ELSE last.fault = "none" =>
            /\ last.res = "Ok"
            /\ Len(last.ret) <= last.arg.limit
            /\ Len(last.ret) <= 100

\* C15 witness: two posts match and limit 1 returned one of them
C15_Witness ==
    /\ PostOk("post_list")
    /\ last.arg.category = None
    /\ ~last.arg.published_only
    /\ last.arg.limit = 1
    /\ Len(last.ret) = 1
    /\ Cardinality(DOMAIN posts) = 2

\* the stored posts a list call asks for
Matching(a) ==
    { DecodePost(posts[i]) : i \in { i \in DOMAIN posts :
          /\ a.category = None \/ DecodePost(posts[i]).category = a.category[1]
          /\ ~a.published_only \/ posts[i].published } }

\* C16: for accepted limit and offset, list returns the slice [offset, offset+limit)
\* of a sequence that holds every matching stored post once, newest first
\* (created_at descending); with published_only = false unpublished posts are
\* included.
C16_ListFiltersOrdersSlices ==
    PostOk("post_list")
    => LET a == last.arg
           M == Matching(a)
           size == IF Cardinality(M) > a.offset
                   THEN Min(a.limit, Cardinality(M) - a.offset) ELSE 0
       IN \E s \in [1..Cardinality(M) -> M] :
            /\ \A i, j \in DOMAIN s : i # j => s[i] # s[j]
            /\ \A i, j \in DOMAIN s : i < j => s[i].created_at >= s[j].created_at
            /\ last.ret = [i \in 1..size |-> s[a.offset + i]]

\* C16 witness: two posts created at different times were listed, one unpublished
C16_Witness ==
    /\ PostOk("post_list")
    /\ Len(last.ret) = 2
    /\ last.ret[1].created_at > last.ret[2].created_at
    /\ \E i \in 1..2 : ~last.ret[i].published

\* C17: tag create (no store failure given) with a name that is empty after
\* trimming returns Validation and adds no tag; with a name whose trimmed form an
\* existing tag has it returns DuplicateEntry and adds no tag; otherwise it stores
\* the trimmed name, and find_by_name(trim(name)) returns the created tag.
C17_TagCreateTrims ==
    ( last.op = "tag_create" /\ last.fault = "none" )
    => IF Trim(last.arg) = <<>>
       THEN last.res = "Validation" /\ tags = last.pre.tags
       ELSE IF \E t \in DOMAIN last.pre.tags : last.pre.tags[t].name = Trim(last.arg)
       THEN last.res = "DuplicateEntry" /\ tags = last.pre.tags
       ELSE /\ last.res = "Ok"
            /\ last.ret.name = Trim(last.arg)
            /\ last.ret.id \notin DOMAIN last.pre.tags
            /\ DOMAIN tags = DOMAIN last.pre.tags \cup {last.ret.id}
            /\ \A t \in DOMAIN last.pre.tags : tags[t] = last.pre.tags[t]
            /\ FindByName(DB, Trim(last.arg)).res = "Ok"
            /\ FindByName(DB, Trim(last.arg)).ret = last.ret

\* C17 witness: a name with surrounding whitespace was created beside another tag
C17_Witness ==
    /\ PostOk("tag_create")
    /\ last.arg # Trim(last.arg)
    /\ DOMAIN last.pre.tags # {}

\* C18: no two stored tags have the same name, and every stored tag name equals
\* its own trimmed form.
C18_TagNamesUniqueTrimmed ==
    /\ \A i, j \in DOMAIN tags : i # j => tags[i].name # tags[j].name
    /\ \A i \in DOMAIN tags : tags[i].name = Trim(tags[i].name)

\* C18 witness: beside another tag, a tag was renamed to a name given with
\* surrounding whitespace
C18_Witness ==
    /\ PostOk("tag_update")
    /\ last.arg.name # Trim(last.arg.name)
    /\ Cardinality(DOMAIN tags) = 2

NameWellFormed(s) ==
    /\ Len(s) > 0
    /\ Len(s) <= 50
    /\ \A i \in 1..Len(s) : s[i] \in AsciiAlnum \cup Whitespace \cup {"-", "_", "+"}

\* C19: every stored tag name is non-empty, at most 50 characters long and composed
\* only of alphanumerics, whitespace, '-', '_' and '+'; a create or update whose
\* name violates these rules is rejected with a Validation error.
C19_TagNamesWellFormed ==
    /\ \A t \in DOMAIN tags : NameWellFormed(tags[t].name)
    /\ ( last.op = "tag_create" /\ last.fault = "none" /\ ~NameWellFormed(Trim(last.arg)) )
       => last.res = "Validation"
    /\ ( last.op = "tag_update" /\ last.fault = "none" /\ ~NameWellFormed(Trim(last.arg.name)) )
       => last.res = "Validation"

\* C20: tag update with a name that is not empty after trimming (no store failure
\* given) returns NotFound when no tag has the id, DuplicateEntry when the trimmed
\* name is the name of a different tag, and leaves every tag unchanged in both
\* cases; otherwise exactly the tag with that id has its name replaced by the
\* trimmed name, its id and created_at unchanged, and is returned.
C20_TagUpdateRenames ==
    ( last.op = "tag_update" /\ last.fault = "none" /\ Trim(last.arg.name) # <<>> )
    => LET id == last.arg.id IN
       IF id \notin DOMAIN last.pre.tags
       THEN last.res = "NotFound" /\ tags = last.pre.tags
       ELSE IF \E t \in DOMAIN last.pre.tags \ {id} :
                  last.pre.tags[t].name = Trim(last.arg.name)
       THEN last.res = "DuplicateEntry" /\ tags = last.pre.tags
       ELSE /\ last.res = "Ok"
            /\ tags = [last.pre.tags EXCEPT ![id].name = Trim(last.arg.name)]
            /\ last.ret = tags[id]
            /\ post_tags = last.pre.post_tags

\* C20 witness: one of two tags, associated with a post, got a new name
C20_Witness ==
    /\ PostOk("tag_update")
    /\ Cardinality(DOMAIN tags) = 2
    /\ tags[last.arg.id].name # last.pre.tags[last.arg.id].name
    /\ \E k \in DOMAIN post_tags : k[2] = last.arg.id /\ post_tags[k] > 0

UpdateFields ==
    {"title", "slug", "content", "description", "image_url", "external_url", "published"}

\* C21: a successful update replaces every mutable field of the post with the
\* input's id by the input value, image_url and external_url becoming null when
\* the input carries none; id and created_at are unchanged and no other post is
\* modified.  update on an id that has no row (the input valid, the transaction
\* begun) returns NotFound and changes nothing.
C21_UpdateReplacesAll ==
    /\ PostOk("post_update") =>
           LET id == last.arg.id IN
           /\ id \in DOMAIN last.pre.posts
           /\ \A f \in UpdateFields : posts[id][f] = last.arg[f]
           /\ DecodePost(posts[id]).category = last.arg.category
           /\ posts[id].id = last.pre.posts[id].id
           /\ posts[id].created_at = last.pre.posts[id].created_at
           /\ DOMAIN posts = DOMAIN last.pre.posts
           /\ \A j \in DOMAIN posts \ {id} : posts[j] = last.pre.posts[j]
           /\ last.ret = DecodePost(posts[id])
    /\ ( /\ last.op = "post_update"
         /\ UpdatePost_validate(last.arg) = "Ok"
         /\ last.fault # "begin"
         /\ last.arg.id \notin DOMAIN last.pre.posts )
       => ( last.res = "NotFound" /\ DB = last.pre )

\* C21 witness: an update without image_url cleared the stored one, beside
\* another post
C21_Witness ==
    /\ PostOk("post_update")
    /\ last.pre.posts[last.arg.id].image_url # None
    /\ posts[last.arg.id].image_url = None
    /\ Cardinality(DOMAIN posts) = 2

OtherHasSlug(ps, id, slug) == \E j \in DOMAIN ps \ {id} : ps[j].slug = slug

\* C22: update (valid input) and patch (of a present slug) on an existing post, no
\* store failure given, return DuplicateEntry and leave all posts unchanged when a
\* different post holds the slug, and succeed otherwise, in particular when the
\* slug is the one the post already has.
C22_SlugConflict ==
    /\ ( /\ last.op = "post_update"
         /\ UpdatePost_validate(last.arg) = "Ok"
         /\ last.fault = "none"
         /\ last.arg.id \in DOMAIN last.pre.posts )
       => IF OtherHasSlug(last.pre.posts, last.arg.id, last.arg.slug)
          THEN last.res = "DuplicateEntry" /\ posts = last.pre.posts
          ELSE last.res = "Ok"
    /\ ( /\ last.op = "post_patch"
         /\ last.res # "Reading"
         /\ last.arg.slug # None
         /\ last.fault = "none"
         /\ last.arg.id \in DOMAIN last.pre.posts )
       => IF OtherHasSlug(last.pre.posts, last.arg.id, last.arg.slug[1])
          THEN last.res = "DuplicateEntry" /\ posts = last.pre.posts
          ELSE last.res = "Ok"

\* C22 witness: an update to the slug of the other post was refused
C22_Witness ==
    /\ last.op = "post_update"
    /\ last.res = "DuplicateEntry"
    /\ OtherHasSlug(posts, last.arg.id, last.arg.slug)
    /\ last.arg.id \in DOMAIN posts

\* C22 witness of the other case: a patch to the slug the post already has succeeded
C22_OwnSlugReached ==
    /\ PostOk("post_patch")
    /\ last.arg.slug # None
    /\ last.pre.posts[last.arg.id].slug = last.arg.slug[1]

AcceptedListInputs == { a \in ListInputs : a.limit >= 1 /\ a.limit <= 100 /\ a.offset >= 0 }

\* C23: delete of an id no post has (the transaction begun) returns NotFound and
\* leaves the store unchanged; delete of an existing post (no store failure given)
\* succeeds, after which find_by_id, find_by_slug and list do not return the post,
\* a second delete of the id returns NotFound, and every other post and every tag
\* is unchanged.
C23_PostDelete ==
    ( last.op = "post_delete" /\ last.fault # "begin" )
    => LET id == last.arg IN
       IF id \notin DOMAIN last.pre.posts
       THEN last.res = "NotFound" /\ DB = last.pre
       ELSE last.fault = "none" =>
            /\ last.res = "Ok"
            /\ FindById(DB, id).res = "NotFound"
            /\ FindBySlug(DB, last.pre.posts[id].slug).res = "NotFound"
            /\ \A a \in AcceptedListInputs :
                 \A out \in PostListOutcomes(DB, a.category, a.published_only,
                                             a.limit, a.offset, "none") :
                   \A i \in DOMAIN out.ret : out.ret[i].id # id
            /\ PostDeleteOutcome(DB, id, "none").res = "NotFound"
            /\ posts = Restrict(last.pre.posts, DOMAIN last.pre.posts \ {id})
            /\ tags = last.pre.tags

\* C23 witness: one of two posts was deleted
C23_Witness ==
    /\ PostOk("post_delete")
    /\ Cardinality(DOMAIN last.pre.posts) = 2
    /\ DOMAIN tags # {}

\* C24: delete of an existing tag (no store failure given) removes that tag and
\* every association with its id in one step, and leaves the posts, the other tags
\* and the other associations unchanged; delete of an id no tag has (the
\* transaction begun) returns NotFound and changes nothing.
C24_TagDelete ==
    ( last.op = "tag_delete" /\ last.fault # "begin" )
    => LET id == last.arg IN
       IF id \notin DOMAIN last.pre.tags
       THEN last.res = "NotFound" /\ DB = last.pre
       ELSE last.fault = "none" =>
            /\ last.res = "Ok"
            /\ tags = Restrict(last.pre.tags, DOMAIN last.pre.tags \ {id})
            /\ post_tags = [k \in DOMAIN last.pre.post_tags |->
                               IF k[2] = id THEN 0 ELSE last.pre.post_tags[k]]
            /\ posts = last.pre.posts

\* C24 witness: a tag with a post was deleted while the other tag keeps its post
C24_Witness ==
    /\ PostOk("tag_delete")
    /\ \E k \in DOMAIN post_tags : k[2] = last.arg /\ last.pre.post_tags[k] > 0
    /\ \E k \in DOMAIN post_tags : post_tags[k] > 0

\* C25: when the commit step of create fails, the call returns an error of kind
\* Transaction, and the inserted row is not visible to a later read.
C25_CommitFailureIsTransaction ==
    ( last.op = "post_create" /\ last.fault = "commit" )
    => ( /\ last.res = "Transaction"
         /\ posts = last.pre.posts
         /\ FindBySlug(DB, last.arg.slug).res = "NotFound" )

\* C25, the part that holds: a failed commit of create leaves no row behind
C25_CommitFailureRollsBack ==
    ( last.op = "post_create" /\ last.fault = "commit" )
    => ( /\ last.res = "Sqlx"
         /\ posts = last.pre.posts
         /\ FindBySlug(DB, last.arg.slug).res = "NotFound" )

\* a patch that breaks a rule of post validation
PatchInvalid(p) ==
    \/ p.id <= 0
    \/ p.title # None /\ Trim(p.title[1]) = <<>>
    \/ p.content # None /\ Trim(p.content[1]) = <<>>
    \/ p.slug # None /\ ~SlugWellFormed(p.slug[1])

\* C28: a post create, update or patch and a tag create or update whose input is
\* invalid returns a Validation error before any transaction is opened: whatever
\* pool.begin() would do, the call has returned Validation without reaching it.
C28_ValidationBeforeBegin ==
    /\ ( last.op = "post_create" /\ CreatePost_validate(last.arg) # "Ok" )
       => ( last.res = "Validation" /\ last.fault = "none" )
    /\ ( last.op = "post_update" /\ UpdatePost_validate(last.arg) # "Ok" )
       => ( last.res = "Validation" /\ last.fault = "none" )
    /\ ( last.op = "post_patch" /\ PatchInvalid(last.arg) )
       => ( last.res = "Validation" /\ last.fault = "none" )
    /\ ( last.op = "tag_create" /\ Trim(last.arg) = <<>> )
       => ( last.res = "Validation" /\ last.fault = "none" )
    /\ ( last.op = "tag_update" /\ Trim(last.arg.name) = <<>> )
       => ( last.res = "Validation" /\ last.fault = "none" )

\* C28, the part that holds: the calls that validate do so before pool.begin()
C28_ValidatingCallsValidateFirst ==
    /\ ( last.op = "post_create" /\ CreatePost_validate(last.arg) # "Ok" )
       => ( last.res = "Validation" /\ last.fault = "none" )
    /\ ( last.op = "post_update" /\ UpdatePost_validate(last.arg) # "Ok" )
       => ( last.res = "Validation" /\ last.fault = "none" )
    /\ ( last.op = "tag_create" /\ Trim(last.arg) = <<>> )
       => ( last.res = "Validation" /\ last.fault = "none" )
    /\ ( last.op = "tag_update" /\ Trim(last.arg.name) = <<>> )
       => ( last.res = "Validation" /\ last.fault = "none" )

\* C30: after a successful patch, image_url and external_url each hold the patch
\* value when the patch has one and the value stored before the patch's write
\* when it has none; so a patch never turns a non-null value into null.
C30_PatchKeepsUrls ==
    PostOk("post_patch") =>
        \A f \in OptionFields :
            posts[last.arg.id][f] =
                IF last.arg[f] # None THEN last.arg[f] ELSE last.pre.posts[last.arg.id][f]

\* C30, the case of a patch that carries a new image_url
C30_UrlPatched ==
    /\ PostOk("post_patch")
    /\ last.arg.image_url # None
    /\ last.pre.posts[last.arg.id].image_url # last.arg.image_url

OpenTransactions == { c \in Callers : inflight[c] # None }

C26_CommittedReached ==
    /\ last.res = "Abandoned"
    /\ last.fault = "commit"
    /\ DB # last.pre

\* the rules of post validation in their order, each with the error it reports
ValidationRules(op) ==
    IF op = "UpdatePost_validate"
    THEN <<"InvalidId", "EmptyTitle", "EmptyContent", "InvalidSlug">>
    ELSE <<"EmptyTitle", "EmptyContent", "InvalidSlug">>

Violates(post, rule) ==
    CASE rule = "InvalidId" -> ~(post.id > 0)
      [] rule = "EmptyTitle" -> \A i \in DOMAIN post.title : post.title[i] \in Whitespace
      [] rule = "EmptyContent" -> \A i \in DOMAIN post.content : post.content[i] \in Whitespace
      [] rule = "InvalidSlug" -> ~SlugWellFormed(post.slug)

\* C27: post validation reports the earliest violated rule in the order id > 0
\* (UpdatePost only), title, content, slug, and accepts exactly when no rule is
\* violated.
C27_FirstViolatedRule ==
    last.op \in {"CreatePost_validate", "UpdatePost_validate"} =>
        LET rules == ValidationRules(last.op)
            violated == { i \in DOMAIN rules : Violates(last.arg, rules[i]) } IN
        /\ (last.res = "Ok") <=> (violated = {})
        /\ violated # {} =>
             \E i \in violated : /\ last.res = rules[i]
                                 /\ \A j \in violated : i <= j

\* C27 witness: an UpdatePost violating every rule was reported as InvalidId
C27_Witness ==
    /\ last.op = "UpdatePost_validate"
    /\ \A i \in 1..4 : Violates(last.arg, ValidationRules(last.op)[i])
    /\ last.res = "InvalidId"

\* the status the boundary is to answer an error kind with
StatusOfKind(kind) ==
    CASE kind = "NotFound" -> 404
      [] kind = "DuplicateEntry" -> 409
      [] kind \in {"Validation", "InvalidInput"} -> 400
      [] OTHER -> 500

KnownCategory(s) ==
    \E name \in { <<"b", "l", "o", "g">>, <<"a", "r", "t">>,
                  <<"r", "e", "a", "d", "i", "n", "g">> } : to_lowercase(s) = name

\* C29: the boundary answers by error kind alone: NotFound 404, DuplicateEntry 409,
\* Validation and handler-level invalid input (unknown category string, malformed
\* tag name) 400, every other kind 500.
C29_StatusByKind ==
    /\ ( last.op \in {"create_tag", "list_posts", "into_response"} /\ last.res # "Ok" )
           => last.ret.status = StatusOfKind(last.res)
    /\ ( last.op = "list_posts" /\ last.arg.category # None
            /\ ~KnownCategory(last.arg.category[1]) )
           => last.ret.status = 400
    /\ ( last.op = "create_tag" /\ ~NameWellFormed(Trim(last.arg)) )
           => last.ret.status = 400
    /\ ( last.op = "into_response"
            /\ last.arg.kind \in {"Sqlx", "Migration", "Configuration", "Transaction"} )
           => last.ret.status = 500

\* C29 witness: create_tag met a stored name and answered 409
C29_Witness ==
    /\ last.op = "create_tag"
    /\ last.res = "DuplicateEntry"
    /\ last.ret.status = 409
    /\ \E id \in DOMAIN tags : tags[id].name = Trim(last.arg)

\* C30, the failing case: a patch that carries no image_url has set a stored
\* image_url back to null
C30_UrlLost ==
    /\ PostOk("post_patch")
    /\ last.arg.image_url = None
    /\ last.pre.posts[last.arg.id].image_url # None
    /\ posts[last.arg.id].image_url = None

\* C31: stored posts have pairwise different ids, and a post keeps its id through
\* every operation: a post stored before a step is stored under the same id after
\* it unless the step was the successful delete of that post.
C31_PostIdsImmutable ==
    /\ \A i, j \in DOMAIN posts : i # j => posts[i].id # posts[j].id
    /\ \A k \in DOMAIN last.pre.posts :
         IF k \in DOMAIN posts
         THEN /\ posts[k].id = last.pre.posts[k].id
              /\ posts[k].created_at = last.pre.posts[k].created_at
         ELSE PostOk("post_delete") /\ last.arg = k

\* C31 witness: a patch was written while two posts are stored, and the patched
\* post is still the one with its id
C31_Witness ==
    /\ PostOk("post_patch")
    /\ Cardinality(DOMAIN posts) = 2
    /\ posts[last.arg.id] # last.pre.posts[last.arg.id]
    /\ posts[last.arg.id].id = last.arg.id

\* C32: TagRepository.list returns every stored tag exactly once in ascending
\* order of name; with include_post_count each post_count is the number of
\* associations of the tag (0 when it has none), without it every post_count is
\* 0; a post_count is never negative.
C32_TagList ==
    ( last.op = "tag_list" /\ last.fault = "none" )
    => LET r == last.ret IN
       /\ last.res = "Ok"
       /\ { r[i].id : i \in DOMAIN r } = DOMAIN tags
       /\ Len(r) = Cardinality(DOMAIN tags)
       /\ \A i \in DOMAIN r :
            /\ r[i].name = tags[r[i].id].name
            /\ r[i].created_at = tags[r[i].id].created_at
            /\ r[i].post_count >= 0
            /\ r[i].post_count =
                 IF last.arg
                 THEN Cardinality({ p \in PostIds : Associated(post_tags, <<p, r[i].id>>) })
                 ELSE 0
       /\ \A i, j \in DOMAIN r : i < j => StrLess(r[i].name, r[j].name)

\* C32 witness: a list with counts over two tags, one on two posts and one on none
C32_Witness ==
    /\ PostOk("tag_list")
    /\ last.arg
    /\ Len(last.ret) = 2
    /\ \E i, j \in DOMAIN last.ret : last.ret[i].post_count = 2 /\ last.ret[j].post_count = 0

\* C32, without counts: tags with associations are listed with post_count 0
C32_UncountedReached ==
    /\ PostOk("tag_list")
    /\ ~last.arg
    /\ \E i \in DOMAIN last.ret :
         /\ last.ret[i].post_count = 0
         /\ \E p \in PostIds : Associated(post_tags, <<p, last.ret[i].id>>)

CategoryNames ==
    { <<"b", "l", "o", "g">>, <<"a", "r", "t">>, <<"r", "e", "a", "d", "i", "n", "g">> }

\* s is name up to the case of its letters
SameLetters(s, name) ==
    /\ Len(s) = Len(name)
    /\ \A i \in 1..Len(s) : s[i] = name[i] \/ s[i] = ToUpper(name[i])

\* C33: the category codec round-trips: from_str(to_string(c)) = c, to_string
\* yields exactly "blog", "art" or "reading", from_str accepts those three in any
\* letter case, and every other string is rejected with an error, never mapped
\* to a category.
C33_CategoryCodec ==
    /\ last.op = "to_string" =>
         /\ last.ret \in CategoryNames
         /\ from_str(last.ret) = [ok |-> TRUE, value |-> last.arg]
         /\ \A c \in PostCategories : c # last.arg => CategoryToString(c) # last.ret
    /\ last.op = "from_str" =>
         /\ (last.res = "Ok") <=> (\E name \in CategoryNames : SameLetters(last.arg, name))
         /\ last.res = "Ok" => /\ last.ret \in PostCategories
                               /\ SameLetters(last.arg, CategoryToString(last.ret))
         /\ last.res # "Ok" => last.res = "Err" /\ last.ret \notin PostCategories

\* C33 witness: "REadiNG" was decoded as Reading
C33_Witness ==
    /\ last.op = "from_str"
    /\ last.arg = <<"R", "E", "a", "d", "i", "N", "G">>
    /\ last.res = "Ok"
    /\ last.ret = "Reading"

\* C33, the rejecting case: a string that only starts like a name is an error
C33_RejectReached ==
    /\ last.op = "from_str"
    /\ last.arg = <<"b", "l", "o", "g", "s">>
    /\ last.res = "Err"

\* C34: a patch whose target post is not stored returns NotFound, also when the
\* post was deleted between the patch's read and its write; a missing row never
\* surfaces as a store error.
C34_PatchMissingIsNotFound ==
    ( /\ last.op = "post_patch"
      /\ last.fault = "none"
      /\ last.arg.id \notin DOMAIN last.pre.posts )
    => last.res = "NotFound"

\* C34, the part that holds: a patch that finds no row at its read is NotFound
C34_MissingAtReadIsNotFound ==
    ( /\ last.op = "post_patch"
      /\ last.fault = "none"
      /\ last.arg.id \notin DOMAIN last.pre.posts
      /\ last.res # "Sqlx" )
    => last.res = "NotFound"

Running == { c \in Callers : pool[c].at # "idle" }

\* the call of c waits for a connection of the pool
Acquiring(c) == pool[c].at \in {"patch: begin", "patch: find_by_id", "other: acquire"}

\* C35: calls in progress can always go on: never does every call in progress
\* wait for a connection while none is free, so all calls complete.
C35_NoPoolDeadlock ==
    Running # {} => \E c \in Running : ~Acquiring(c) \/ Free > 0

\* C35, its premise: a call holds at most one pooled connection at any time
C35_AtMostOneConnection == \A c \in Callers : pool[c].held <= 1

\* C35, for the calls other than patch: while no patch is in progress, calls in
\* progress can always go on
C35_OtherCallsGoOn ==
    ( Running # {} /\ \A c \in Running : pool[c].at \in {"other: acquire", "other: run"} )
    => \E c \in Running : ~Acquiring(c) \/ Free > 0

\* C36: of two creates of posts with valid inputs and the same unused slug, in
\* either order, the one the store takes first succeeds and the other returns
\* DuplicateEntry, and one row has the slug afterwards; likewise for two creates
\* of tags whose names trim to the same unused name.  (No store failure.)
C36_OneCreateWins ==
    [][ /\ ( /\ calls' = calls + 1
             /\ last.op = "post_create" /\ last'.op = "post_create"
             /\ last.fault = "none" /\ last'.fault = "none"
             /\ CreatePost_validate(last.arg) = "Ok"
             /\ CreatePost_validate(last'.arg) = "Ok"
             /\ last.arg.slug = last'.arg.slug
             /\ FindBySlug(last.pre, last.arg.slug).res = "NotFound" )
           => ( /\ last.res = "Ok"
                /\ last'.res = "DuplicateEntry"
                /\ Cardinality({ i \in DOMAIN posts' : posts'[i].slug = last.arg.slug }) = 1 )
        /\ ( /\ calls' = calls + 1
             /\ last.op = "tag_create" /\ last'.op = "tag_create"
             /\ last.fault = "none" /\ last'.fault = "none"
             /\ Trim(last.arg) # <<>>
             /\ Trim(last.arg) = Trim(last'.arg)
             /\ FindByName(last.pre, Trim(last.arg)).res = "NotFound" )
           => ( /\ last.res = "Ok"
                /\ last'.res = "DuplicateEntry"
                /\ Cardinality({ i \in DOMAIN tags' : tags'[i].name = Trim(last.arg) }) = 1 )
      ]_vars

\* C36 witness: after two calls, both creates with one slug, one post is stored
\* and the second call has returned DuplicateEntry
C36_Witness ==
    /\ calls = 2
    /\ last.op = "post_create"
    /\ last.res = "DuplicateEntry"
    /\ last.fault = "none"
    /\ Cardinality(DOMAIN posts) = 1
    /\ \E i \in DOMAIN posts : posts[i].slug = last.arg.slug

\* C36, for tags: the second create of " x " after "x" has returned DuplicateEntry
C36_TagRaceReached ==
    /\ calls = 2
    /\ last.op = "tag_create"
    /\ last.res = "DuplicateEntry"
    /\ Cardinality(DOMAIN tags) = 1
    /\ \E i \in DOMAIN tags : tags[i].name = Trim(last.arg) /\ tags[i].name # last.arg

TagIdsOfPost(db, post_id) ==
    LET r == ListTagsForPost(db, post_id, "none").ret IN { r[i].id : i \in DOMAIN r }

\* C37: a tag update and a post update or patch leave the associations as they
\* were: every post has the tags it had and every tag the posts it had, and
\* list_tags_for_post returns the same tag ids before and after.
C37_EditsKeepAssociations ==
    last.op \in {"tag_update", "post_update", "post_patch"} =>
        /\ \A k \in PostIds \X TagIds :
             Associated(post_tags, k) <=> Associated(last.pre.post_tags, k)
        /\ \A p \in PostIds : TagIdsOfPost(DB, p) = TagIdsOfPost(last.pre, p)

\* C37 witness: a tag on a post was renamed and the post still lists it
C37_Witness ==
    /\ PostOk("tag_update")
    /\ last.pre.tags[last.arg.id].name # tags[last.arg.id].name
    /\ \E p \in PostIds : last.arg.id \in TagIdsOfPost(DB, p)

\* C37, for posts: a post with a tag was updated and still lists the tag
C37_PostEditReached ==
    /\ PostOk("post_update")
    /\ posts[last.arg.id] # last.pre.posts[last.arg.id]
    /\ TagIdsOfPost(DB, last.arg.id) # {}

AsciiLetter(ch) == ch \in {"a", "b", "e", "i", "x", "y", "C", "D", "T", "X", "Z"}

AsciiDigit(ch) == ch \in {"0", "9"}

\* C38: is_valid_slug(s) is true exactly when s is non-empty, every character of
\* s is an ASCII letter, an ASCII digit or '-', and neither the first nor the last
\* character is '-'; consecutive interior hyphens are accepted.
C38_SlugRule ==
    last.op = "is_valid_slug" =>
        LET s == last.arg IN
        /\ last.ret <=> ( /\ Len(s) > 0
                          /\ \A i \in 1..Len(s) :
                               AsciiLetter(s[i]) \/ AsciiDigit(s[i]) \/ s[i] = "-"
                          /\ s[1] # "-"
                          /\ s[Len(s)] # "-" )
        /\ ( /\ Len(s) = 4
             /\ AsciiLetter(s[1]) \/ AsciiDigit(s[1])
             /\ s[2] = "-" /\ s[3] = "-"
             /\ AsciiLetter(s[4]) \/ AsciiDigit(s[4]) )
           => last.ret

\* C38 witness: "a--9" was accepted
C38_Witness ==
    /\ last.op = "is_valid_slug"
    /\ last.arg = <<"a", "-", "-", "9">>
    /\ last.ret

\* C38, a rejected case: a letter outside ASCII
C38_NonAsciiRejected ==
    /\ last.op = "is_valid_slug"
    /\ last.arg = <<"a", "é">>
    /\ ~last.ret
====
